---- MODULE Spec2Model ----
(***************************************************************************)
(* agentctl: natural language -> Kubernetes manifest -> cluster apply.     *)
(*                                                                         *)
(* The module models                                                       *)
(*   - the YAML values the code manipulates (python dicts/lists/scalars),  *)
(*     the text of a manifest, and yaml.safe_load / yaml.dump between them *)
(*   - the two Name Disambiguators (_inject_unique_name, randomize_name)   *)
(*   - the heuristic generator K8sAgent                                    *)
(*   - the orchestrator AgentService.generate_yaml and the text-generation *)
(*     wrapper ask_llm / _hf_call                                          *)
(*   - the cluster gateway K8sClient.apply_manifest                        *)
(*   - the handlers: POST /apply, POST /agent, POST /generate-yaml and the *)
(*     dashboard's Generate / Apply buttons                                *)
(***************************************************************************)
EXTENDS Integers, Sequences, FiniteSets, TLC

(***************************************************************************)
(* Python values.  Every value is a record tagged by t, so that values of  *)
(* different python types can be compared.                                 *)
(***************************************************************************)
PyNone == [t |-> "none"]

PyStr(s) == [t |-> "str", v |-> s]

PyInt(n) == [t |-> "int", v |-> n]

PyBool(b) == [t |-> "bool", v |-> b]

PyList(s) == [t |-> "list", s |-> s]

PyDict(m) == [t |-> "dict", m |-> m]

EmptyDict == PyDict(<<>>)

\* bool(x): None, "", 0, False, [] and {} are falsy
Truthy(x) ==
  CASE x.t = "none" -> FALSE
    [] x.t = "str" -> x.v # ""
    [] x.t = "int" -> x.v # 0
    [] x.t = "bool" -> x.v
    [] x.t = "list" -> x.s # <<>>
    [] x.t = "dict" -> DOMAIN x.m # {}

\* `a or b`
PyOr(a, b) == IF Truthy(a) THEN a ELSE b

\* x has a .get method (only dicts have)
HasGet(x) == x.t = "dict"

\* d.get(k, default) for a dict d
DictGet(d, k, default) == IF k \in DOMAIN d.m THEN d.m[k] ELSE default

\* d[k] = v for a dict d, as a new value
DictSet(d, k, v) ==
  PyDict([x \in DOMAIN d.m \cup {k} |-> IF x = k THEN v ELSE d.m[x]])

\* hash(x) works: dicts and lists are unhashable
Hashable(x) == x.t \notin {"dict", "list"}

\* The outcome of a python call: a returned value or a raised exception
Return(v) == [ok |-> TRUE, v |-> v]

Raise(e) == [ok |-> FALSE, e |-> e]

(***************************************************************************)
(* YAML text.  A text is its layout (how it was written) and its document: *)
(* the tree of mappings, sequences and scalars as written, a scalar being  *)
(* plain or quoted.  Two texts are the same string only if both agree.     *)
(*   layout "empty"     the empty string                                   *)
(*          "blank"     whitespace only                                    *)
(*          "raw"       written by a user or a text-generation service     *)
(*          "padded"    the same with leading/trailing whitespace          *)
(*          "lines"     the literal lines of the K8sAgent templates        *)
(*          "dump"      yaml.dump(obj, sort_keys=False)                    *)
(*          "safe_dump" yaml.safe_dump(data) (keys sorted)                 *)
(* An alias stands for the node its anchor marks: the loader builds one    *)
(* python object for the anchored node and puts that same object wherever  *)
(* the alias occurs.                                                       *)
(***************************************************************************)
Plain(s) == [p |-> "scalar", q |-> FALSE, s |-> s]

Quoted(s) == [p |-> "scalar", q |-> TRUE, s |-> s]

YMap(m) == [p |-> "map", m |-> m]

YSeq(s) == [p |-> "seq", s |-> s]

\* a document the YAML parser rejects (bad indentation, several documents, ...)
YInvalid == [p |-> "invalid"]

\* an alias *a, where the anchor &a marks the node at the path `to`
YAlias(to) == [p |-> "alias", to |-> to]

\* a key that is left out of a mapping
Absent == [p |-> "absent"]

\* the mapping with the keys of f whose value is not Absent
YMapOf(f) == YMap([k \in {x \in DOMAIN f : f[x] # Absent} |-> f[k]])

Text(layout, doc) == [layout |-> layout, doc |-> doc]

EmptyText == Text("empty", Plain(""))

BlankText == Text("blank", Plain(""))

\* the largest integer the model writes into a manifest
MaxYamlInt == 80

Digit == <<"0", "1", "2", "3", "4", "5", "6", "7", "8", "9">>

RECURSIVE IntToStr(_)
\* str(n) for n >= 0
IntToStr(n) ==
  IF n < 10 THEN Digit[n + 1] ELSE IntToStr(n \div 10) \o Digit[(n % 10) + 1]

\* the plain scalars that are integers
IntWord == [n \in 0..MaxYamlInt |-> IntToStr(n)]

IntWords == {IntWord[n] : n \in 0..MaxYamlInt}

NullWords == {"", "~", "null", "Null", "NULL"}

TrueWords == {"true", "True", "TRUE", "yes", "Yes", "YES", "on", "On", "ON"}

FalseWords == {"false", "False", "FALSE", "no", "No", "NO", "off", "Off", "OFF"}

\* PyYAML's implicit resolver: the python value of a plain scalar
Resolve(s) ==
  IF s \in NullWords THEN PyNone
  ELSE IF s \in TrueWords THEN PyBool(TRUE)
  ELSE IF s \in FalseWords THEN PyBool(FALSE)
  ELSE IF s \in IntWords THEN PyInt(CHOOSE n \in 0..MaxYamlInt : IntWord[n] = s)
  ELSE PyStr(s)

RECURSIVE NodeAt(_, _)
\* the node at a path of keys of a document
NodeAt(y, path) ==
  IF path = <<>> THEN y ELSE NodeAt(y.m[Head(path)], Tail(path))

RECURSIVE Construct(_, _)
\* the python value of the node y of the parsed document root; an alias has
\* the value of the node its anchor marks
Construct(root, y) ==
  CASE y.p = "scalar" -> IF y.q THEN PyStr(y.s) ELSE Resolve(y.s)
    [] y.p = "map" -> PyDict([k \in DOMAIN y.m |-> Construct(root, y.m[k])])
    [] y.p = "seq" -> PyList([i \in DOMAIN y.s |-> Construct(root, y.s[i])])
    [] y.p = "alias" -> Construct(root, NodeAt(root, y.to))

\* yaml.safe_load(text): raises yaml.YAMLError on a document that does not parse
safe_load(text) ==
  IF text.doc = YInvalid THEN Raise("YAMLError")
  ELSE Return(Construct(text.doc, text.doc))

RECURSIVE PathsOf(_)
\* the paths of keys of a tree, the empty path included
PathsOf(x) ==
  IF x.t # "dict" THEN {<<>>}
  ELSE {<<>>} \cup UNION {{<<k>> \o q : q \in PathsOf(x.m[k])} : k \in DOMAIN x.m}

RECURSIVE ObjectAt(_, _, _)
\* the python object at a path of the loaded tree, named by the place of its
\* node in the document: an alias on the way leads to its anchor
ObjectAt(doc, at, rest) ==
  IF NodeAt(doc, at).p = "alias" THEN ObjectAt(doc, NodeAt(doc, at).to, rest)
  ELSE IF rest = <<>> THEN at
  ELSE ObjectAt(doc, at \o <<Head(rest)>>, Tail(rest))

RECURSIVE AliasPaths(_)
\* the paths of a document (aliases not followed) where an alias stands
AliasPaths(y) ==
  IF y.p = "alias" THEN {<<>>}
  ELSE IF y.p # "map" THEN {}
  ELSE UNION {{<<k>> \o q : q \in AliasPaths(y.m[k])} : k \in DOMAIN y.m}

\* the paths of the loaded tree that hold the object at path: that path
\* alone in a document without aliases
SharedPaths(text, path) ==
  IF AliasPaths(text.doc) = {} THEN {path}
  ELSE {q \in PathsOf(safe_load(text).v) :
          ObjectAt(text.doc, <<>>, q) = ObjectAt(text.doc, <<>>, path)}

RECURSIVE Represent(_)
\* the document the dumper writes for a python value: a string that would
\* resolve to something else as a plain scalar is written quoted
Represent(x) ==
  CASE x.t = "none" -> Plain("null")
    [] x.t = "bool" -> Plain(IF x.v THEN "true" ELSE "false")
    [] x.t = "int" -> Plain(IntToStr(x.v))
    [] x.t = "str" -> IF Resolve(x.v) = PyStr(x.v) THEN Plain(x.v) ELSE Quoted(x.v)
    [] x.t = "list" -> YSeq([i \in DOMAIN x.s |-> Represent(x.s[i])])
    [] x.t = "dict" -> YMap([k \in DOMAIN x.m |-> Represent(x.m[k])])

RECURSIVE NodeSet(_, _, _)
\* the document y with node at path
NodeSet(y, path, node) ==
  IF path = <<>> THEN node
  ELSE YMap([k \in DOMAIN y.m |->
              IF k = Head(path) THEN NodeSet(y.m[k], Tail(path), node) ELSE y.m[k]])

RECURSIVE WithAliases(_, _, _)
\* the dumper writes an object it meets again as an alias of its anchor:
\* the document y with the aliases of the document the objects were loaded
\* from, at the paths as
WithAliases(y, from, as) ==
  IF as = {} THEN y
  ELSE LET a == CHOOSE x \in as : TRUE
       IN WithAliases(NodeSet(y, a, NodeAt(from, a)), from, as \ {a})

\* yaml.dump(obj, sort_keys=False) of an object loaded from yaml_text
yaml_dump(obj, yaml_text) ==
  Text("dump", WithAliases(Represent(obj), yaml_text.doc, AliasPaths(yaml_text.doc)))

\* yaml.safe_dump(data) of an object loaded from yaml_text
yaml_safe_dump(data, yaml_text) ==
  Text("safe_dump", WithAliases(Represent(data), yaml_text.doc, AliasPaths(yaml_text.doc)))

\* text.strip()
Strip(text) ==
  CASE text.layout = "blank" -> EmptyText
    [] text.layout = "padded" -> Text("raw", text.doc)
    [] text.layout \in {"lines", "dump", "safe_dump"} -> Text("stripped", text.doc)
    [] OTHER -> text

\* f"{x}" for the values the model formats
Format(x) ==
  CASE x.t = "str" -> x.v
    [] x.t = "int" -> IntToStr(x.v)
    [] x.t = "none" -> "None"
    [] x.t = "bool" -> IF x.v THEN "True" ELSE "False"
    [] OTHER -> "<repr>"

(***************************************************************************)
(* Strings the code cuts or searches are sequences of characters; Join     *)
(* makes the string a sequence of characters spells.                       *)
(***************************************************************************)
RECURSIVE Join(_)
Join(cs) == IF cs = <<>> THEN "" ELSE Head(cs) \o Join(Tail(cs))

\* s[:n]
Prefix(cs, n) == SubSeq(cs, 1, IF n < Len(cs) THEN n ELSE Len(cs))

\* The values str(uuid.uuid4()) takes in the model
Uuid4Strs ==
  { <<"3", "f", "9", "a", "1", "c", "7", "e", "-", "5", "b", "2", "d", "-", "4", "e", "8", "a", "-", "9", "c", "4", "1", "-", "0", "d", "6", "b", "7", "a", "2", "e", "1", "f", "5", "3">>,
    <<"c", "0", "4", "d", "2", "b", "8", "8", "-", "1", "7", "a", "e", "-", "4", "f", "3", "0", "-", "b", "6", "d", "9", "-", "5", "2", "e", "0", "c", "9", "a", "4", "7", "c", "1", "b">> }

SupportedKinds == {PyStr("Job"), PyStr("Deployment"), PyStr("CronJob")}

(***************************************************************************)
(* The Name Disambiguator of the apply route: _inject_unique_name.         *)
(***************************************************************************)
\* One step of data.get("spec", {}).get("jobTemplate", {})... : cur is the
\* object reached so far and whether it is part of data (att) or a fresh {}
\* that .get returned as its default
GetStep(cur, k) ==
  IF ~cur.ok THEN cur
  ELSE IF ~HasGet(cur.v.obj) THEN Raise("AttributeError")
  ELSE IF k \in DOMAIN cur.v.obj.m
       THEN Return([obj |-> cur.v.obj.m[k], att |-> cur.v.att])
       ELSE Return([obj |-> EmptyDict, att |-> FALSE])

RECURSIVE SetPath(_, _, _)
\* data with the object at path replaced by v (every dict on the path exists)
SetPath(d, path, v) ==
  IF path = <<>> THEN v
  ELSE DictSet(d, Head(path), SetPath(d.m[Head(path)], Tail(path), v))

RECURSIVE SetPaths(_, _, _)
\* data with v at every path of the set
SetPaths(d, paths, v) ==
  IF paths = {} THEN d
  ELSE LET q == CHOOSE x \in paths : TRUE
       IN SetPaths(SetPath(d, q, v), paths \ {q}, v)

\* a write to the object at path (it becomes v), seen wherever the tree
\* loaded from yaml_text holds that object
WriteObject(d, yaml_text, path, v) == SetPaths(d, SharedPaths(yaml_text, path), v)

TemplatePath == <<"spec", "jobTemplate", "spec", "template">>

\* lines 47-60: the CronJob branch, on data after the rename
InjectCronJobLabels(data, new_name, yaml_text) ==
  LET tmpl == GetStep(GetStep(GetStep(GetStep(
                Return([obj |-> data, att |-> TRUE]),
                "spec"), "jobTemplate"), "spec"), "template")
  IN IF ~tmpl.ok THEN tmpl
     ELSE IF tmpl.v.obj.t # "dict" THEN Return(data)
     ELSE LET md == PyOr(DictGet(tmpl.v.obj, "metadata", PyNone), EmptyDict)
          IN IF ~HasGet(md) THEN Raise("AttributeError")
             ELSE LET labels == PyOr(DictGet(md, "labels", PyNone), EmptyDict)
                  IN IF labels.t # "dict" THEN Raise("TypeError")
                     ELSE LET labels2 == DictSet(labels, "app", PyStr(new_name))
                              md2 == DictSet(md, "labels", labels2)
                              tmpl2 == DictSet(tmpl.v.obj, "metadata", md2)
                          IN IF ~tmpl.v.att THEN Return(data)
                             ELSE IF Truthy(md) /\ Truthy(labels)
                             THEN Return(WriteObject(data, yaml_text,
                                    TemplatePath \o <<"metadata", "labels">>, labels2))
                             ELSE IF Truthy(md)
                             THEN Return(WriteObject(data, yaml_text,
                                    TemplatePath \o <<"metadata">>, md2))
                             ELSE Return(WriteObject(data, yaml_text, TemplatePath, tmpl2))

\* a slip in the slice: four characters of the uuid instead of five
InjectNewName_Short(base_name, u) == Format(base_name) \o "-" \o Join(Prefix(u, 4))

\* lines 42-43: suffix = str(uuid.uuid4())[:5]; f"{base_name}-{suffix}"
InjectNewName(base_name, u) == Format(base_name) \o "-" \o Join(Prefix(u, 5))

\* lines 29-62: the body of the try block; u is str(uuid.uuid4())
InjectBody(yaml_text, u) ==
  LET ld == safe_load(yaml_text)
  IN IF ~ld.ok THEN ld
     ELSE IF ld.v.t # "dict" THEN Return(yaml_text)
     ELSE LET data == ld.v
              kind == DictGet(data, "kind", PyNone)
          IN IF ~Hashable(kind) THEN Raise("TypeError")
             ELSE IF kind \notin SupportedKinds THEN Return(yaml_text)
             ELSE LET meta == PyOr(DictGet(data, "metadata", PyNone), EmptyDict)
                  IN IF ~HasGet(meta) THEN Raise("AttributeError")
                     ELSE LET base_name == DictGet(meta, "name", PyNone)
                          IN IF ~Truthy(base_name) THEN Return(yaml_text)
                             ELSE LET new_name == InjectNewName(base_name, u)
                                      data2 == WriteObject(data, yaml_text, <<"metadata">>,
                                                 DictSet(meta, "name", PyStr(new_name)))
                                      data3 == IF kind = PyStr("CronJob")
                                               THEN InjectCronJobLabels(data2, new_name,
                                                                        yaml_text)
                                               ELSE Return(data2)
                                  IN IF ~data3.ok THEN data3
                                     ELSE Return(yaml_safe_dump(data3.v, yaml_text))

\* the function without its try/except: an exception of the body escapes
InjectNoCatch(yaml_text, u) == InjectBody(yaml_text, u)

\* _inject_unique_name(yaml_text): `except Exception: return yaml_text`
_inject_unique_name(yaml_text, u) ==
  LET r == InjectBody(yaml_text, u)
  IN IF r.ok THEN r ELSE Return(yaml_text)

(***************************************************************************)
(* The Name Disambiguator of the orchestrator: randomize_name.             *)
(***************************************************************************)
\* lines 24-25: suffix = str(uuid.uuid4())[:5]; f"{name}-{suffix}"
RandomizeNewName(name, u) == Format(name) \o "-" \o Join(Prefix(u, 5))

\* lines 11-27: the body of the try block
RandomizeBody(yaml_text, u) ==
  LET ld == safe_load(yaml_text)
  IN IF ~ld.ok THEN ld
     ELSE IF ld.v.t # "dict" THEN Return(yaml_text)
     ELSE LET obj == ld.v
              kind == DictGet(obj, "kind", PyNone)
          IN IF kind \notin SupportedKinds THEN Return(yaml_text)
             ELSE LET metadata == DictGet(obj, "metadata", EmptyDict)
                  IN IF ~HasGet(metadata) THEN Raise("AttributeError")
                     ELSE LET name == DictGet(metadata, "name", PyNone)
                          IN IF ~Truthy(name) THEN Return(yaml_text)
                             ELSE LET obj2 == WriteObject(obj, yaml_text, <<"metadata">>,
                                                DictSet(metadata, "name",
                                                  PyStr(RandomizeNewName(name, u))))
                                  IN Return(yaml_dump(obj2, yaml_text))

\* randomize_name(yaml_text): `except Exception: return yaml_text`
randomize_name(yaml_text, u) ==
  LET r == RandomizeBody(yaml_text, u)
  IN IF r.ok THEN r ELSE Return(yaml_text)

(***************************************************************************)
(* String operations of the heuristic generator.  A prompt is a sequence   *)
(* of characters; the keywords it is searched for are strings.             *)
(***************************************************************************)
LowerOf ==
  "A" :> "a" @@ "B" :> "b" @@ "C" :> "c" @@ "D" :> "d" @@ "E" :> "e" @@ "F" :> "f" @@
  "G" :> "g" @@ "H" :> "h" @@ "I" :> "i" @@ "J" :> "j" @@ "K" :> "k" @@ "L" :> "l" @@
  "M" :> "m" @@ "N" :> "n" @@ "O" :> "o" @@ "P" :> "p" @@ "Q" :> "q" @@ "R" :> "r" @@
  "S" :> "s" @@ "T" :> "t" @@ "U" :> "u" @@ "V" :> "v" @@ "W" :> "w" @@ "X" :> "x" @@
  "Y" :> "y" @@ "Z" :> "z"

\* text.lower()
Lower(cs) == [i \in DOMAIN cs |-> IF cs[i] \in DOMAIN LowerOf THEN LowerOf[cs[i]] ELSE cs[i]]

\* the string w starts at position i of cs
MatchAt(cs, i, w) ==
  /\ i >= 1
  /\ i + Len(w) - 1 <= Len(cs)
  /\ Join(SubSeq(cs, i, i + Len(w) - 1)) = w

\* w in cs
Contains(cs, w) == \E i \in 1..(Len(cs) + 1) : MatchAt(cs, i, w)

\* cs.find(w), 1-based; 0 where python returns -1
Find(cs, w) ==
  IF Contains(cs, w)
  THEN CHOOSE i \in 1..(Len(cs) + 1) :
         MatchAt(cs, i, w) /\ \A j \in 1..(i - 1) : ~MatchAt(cs, j, w)
  ELSE 0

RECURSIVE Remove(_, _)
\* cs.replace(w, "")
Remove(cs, w) ==
  IF cs = <<>> THEN <<>>
  ELSE IF MatchAt(cs, 1, w) THEN Remove(SubSeq(cs, Len(w) + 1, Len(cs)), w)
  ELSE <<Head(cs)>> \o Remove(Tail(cs), w)

Whitespace == {" ", "\t", "\n"}

RECURSIVE LStrip(_)
LStrip(cs) == IF cs # <<>> /\ Head(cs) \in Whitespace THEN LStrip(Tail(cs)) ELSE cs

RECURSIVE RStrip(_)
RStrip(cs) ==
  IF cs # <<>> /\ cs[Len(cs)] \in Whitespace THEN RStrip(SubSeq(cs, 1, Len(cs) - 1)) ELSE cs

\* cs.strip()
StripChars(cs) == RStrip(LStrip(cs))

DigitChars == {"0", "1", "2", "3", "4", "5", "6", "7", "8", "9"}

DigitValue(c) == CHOOSE n \in 0..9 : Digit[n + 1] = c

RECURSIVE DigitsToInt(_)
\* int(ds) for a sequence of digits
DigitsToInt(ds) ==
  IF ds = <<>> THEN 0
  ELSE 10 * DigitsToInt(SubSeq(ds, 1, Len(ds) - 1)) + DigitValue(ds[Len(ds)])

\* the end of the longest run of characters of set S that starts at i
\* (i - 1 when cs[i] is not in S)
RunEnd(cs, i, S) ==
  CHOOSE j \in (i - 1)..Len(cs) :
    /\ \A k \in i..j : cs[k] \in S
    /\ (j < Len(cs) => cs[j + 1] \notin S)

\* re.search(r"(\d+)\s+replica", cs) matches with the digits starting at i
ReplicaMatchAt(cs, i) ==
  /\ cs[i] \in DigitChars
  /\ LET d == RunEnd(cs, i, DigitChars)
         w == RunEnd(cs, d + 1, Whitespace)
     IN w > d /\ MatchAt(cs, w + 1, "replica")

(***************************************************************************)
(* K8sAgent: the heuristic generator (Intent Classifier and Renderer).     *)
(***************************************************************************)
CronWords == {"every minute", "every 5 minutes", "every hour", "cron", "schedule", "scheduled job"}

DeploymentWords == {"deployment", "service", "web", "api", "server", "nginx", "frontend", "backend"}

\* a variant that looks for the Deployment keywords first
infer_kind_DeploymentFirst(text) ==
  LET t == Lower(text)
  IN IF \E w \in DeploymentWords : Contains(t, w) THEN "Deployment"
     ELSE IF \E w \in CronWords : Contains(t, w) THEN "CronJob"
     ELSE "Job"

\* K8sAgent.infer_kind(text)
infer_kind(text) ==
  LET t == Lower(text)
  IN IF \E w \in CronWords : Contains(t, w) THEN "CronJob"
     ELSE IF \E w \in DeploymentWords : Contains(t, w) THEN "Deployment"
     ELSE "Job"

\* the command of the "run python" rule: text[idx:].replace("run ", "").strip()
RunPythonCommand(text) ==
  LET idx == Find(Lower(text), "run python")
  IN StripChars(Remove(SubSeq(text, idx, Len(text)), "run "))

\* "echo Hello && sleep 5"
DefaultJobCommand ==
  <<"e", "c", "h", "o", " ", "H", "e", "l", "l", "o", " ", "&", "&", " ",
    "s", "l", "e", "e", "p", " ", "5">>

\* "echo Hello from CronJob && date"
DefaultCronJobCommand ==
  <<"e", "c", "h", "o", " ", "H", "e", "l", "l", "o", " ", "f", "r", "o",
    "m", " ", "C", "r", "o", "n", "J", "o", "b", " ", "&", "&", " ", "d",
    "a", "t", "e">>

\* What the YAML parser reads from a text the templates write after "- " on
\* a line of its own: " #" starts a comment, and ": " or a ":" at the end
\* makes the entry a mapping with one key (a second ": " is an error).
PlainOfLine(cs) ==
  LET c == Find(cs, " #")
      body == RStrip(IF c > 0 THEN SubSeq(cs, 1, c - 1) ELSE cs)
      k == Find(body, ": ")
      colonEnds(x) == x # <<>> /\ x[Len(x)] = ":"
  IN IF k = 0
     THEN IF colonEnds(body)
          THEN YMap(Join(SubSeq(body, 1, Len(body) - 1)) :> Plain(""))
          ELSE Plain(Join(body))
     ELSE LET rest == LStrip(SubSeq(body, k + 2, Len(body)))
          IN IF Contains(rest, ": ") \/ colonEnds(rest) THEN YInvalid
             ELSE YMap(Join(SubSeq(body, 1, k - 1)) :> Plain(Join(rest)))

\* K8sAgent.nl_to_job_request(text, namespace)
nl_to_job_request(text, namespace) ==
  LET t == Lower(text)
  IN [ prompt |-> text,
       name |-> IF Contains(t, "preprocess") THEN "preprocess-job"
                ELSE IF Contains(t, "inference") THEN "inference-job"
                ELSE IF Contains(t, "train") \/ Contains(t, "training") THEN "training-job"
                ELSE "agentctl-job",
       image |-> IF Contains(t, "pytorch") THEN "pytorch/pytorch:2.3.0-cuda12.1-cudnn9-runtime"
                 ELSE IF Contains(t, "python") THEN "python:3.11-slim"
                 ELSE "busybox:1.36",
       command |-> IF Contains(t, "run python") THEN RunPythonCommand(text)
                   ELSE DefaultJobCommand,
       cpu |-> IF Contains(t, "gpu") THEN "2000m" ELSE "500m",
       memory |-> IF Contains(t, "gpu") THEN "8Gi" ELSE "512Mi",
       namespace |-> namespace ]

\* the resources block of the Job template
ResourcesDoc(cpu, memory) ==
  YMap("requests" :> YMap("cpu" :> Plain(cpu) @@ "memory" :> Plain(memory)) @@
       "limits" :> YMap("cpu" :> Plain(cpu) @@ "memory" :> Plain(memory)))

\* K8sAgent.job_request_to_yaml(req): the document its lines spell
job_request_to_yaml(req) ==
  LET command == IF req.command # <<>> THEN PlainOfLine(req.command) ELSE Absent
      container ==
        YMapOf("name" :> Plain("main") @@
               "image" :> Plain(req.image) @@
               "command" :> (IF command # Absent
                             THEN YSeq(<<Plain("/bin/sh"), Plain("-c"), command>>)
                             ELSE Absent) @@
               "resources" :> ResourcesDoc(req.cpu, req.memory))
  IN IF command = YInvalid
     THEN Text("lines", YInvalid)
     ELSE
     Text("lines",
       YMap("apiVersion" :> Plain("batch/v1") @@
            "kind" :> Plain("Job") @@
            "metadata" :> YMap("name" :> Plain(req.name) @@
                               "namespace" :> Plain(req.namespace)) @@
            "spec" :> YMap("template" :>
               YMap("metadata" :> YMap("labels" :> YMap("app" :> Plain("agentctl"))) @@
                    "spec" :> YMap("restartPolicy" :> Plain("Never") @@
                                   "containers" :> YSeq(<<container>>))))))

\* K8sAgent.nl_to_deployment_yaml(text, namespace)
nl_to_deployment_yaml(text, namespace) ==
  LET t == Lower(text)
      name == IF Contains(t, "nginx") THEN "nginx-deployment" ELSE "agentctl-deployment"
      image == IF Contains(t, "pytorch") THEN "pytorch/pytorch:2.3.0-cuda12.1-cudnn9-runtime"
               ELSE IF Contains(t, "python") THEN "python:3.11-slim"
               ELSE "nginx:1.27-alpine"
      replicas ==
        IF \E i \in 1..Len(t) : ReplicaMatchAt(t, i)
        THEN LET i == CHOOSE i \in 1..Len(t) :
                        ReplicaMatchAt(t, i) /\ \A j \in 1..(i - 1) : ~ReplicaMatchAt(t, j)
             IN DigitsToInt(SubSeq(t, i, RunEnd(t, i, DigitChars)))
        ELSE 1
      labels == YMap("app" :> Plain("agentctl-deployment"))
  IN Text("lines",
       YMap("apiVersion" :> Plain("apps/v1") @@
            "kind" :> Plain("Deployment") @@
            "metadata" :> YMap("name" :> Plain(name) @@
                               "namespace" :> Plain(namespace) @@
                               "labels" :> labels) @@
            "spec" :> YMap("replicas" :> Plain(IntToStr(replicas)) @@
                           "selector" :> YMap("matchLabels" :> labels) @@
                           "template" :>
               YMap("metadata" :> YMap("labels" :> labels) @@
                    "spec" :> YMap("containers" :> YSeq(<<
                       YMap("name" :> Plain("main") @@
                            "image" :> Plain(image) @@
                            "ports" :> YSeq(<<YMap("containerPort" :> Plain("80"))>>))>>))))))

\* agent.py lines 178-198: the parameters nl_to_cronjob_yaml takes from the text
CronJobParams(text, namespace) ==
  LET t == Lower(text)
  IN [ name |-> "agentctl-cronjob",
       schedule |-> IF Contains(t, "every minute") THEN "* * * * *"
                    ELSE IF Contains(t, "every 5 minutes") THEN "*/5 * * * *"
                    ELSE IF Contains(t, "every hour") THEN "0 * * * *"
                    ELSE IF Contains(t, "every day") THEN "0 0 * * *"
                    ELSE "*/5 * * * *",
       image |-> IF Contains(t, "python") THEN "python:3.11-slim" ELSE "busybox:1.36",
       command |-> IF Contains(t, "run python") THEN RunPythonCommand(text)
                   ELSE DefaultCronJobCommand,
       namespace |-> namespace ]

\* K8sAgent.nl_to_cronjob_yaml(text, namespace)
nl_to_cronjob_yaml(text, namespace) ==
  LET params == CronJobParams(text, namespace)
      schedule == params.schedule
      image == params.image
      command == PlainOfLine(params.command)
  IN IF command = YInvalid THEN Text("lines", YInvalid)
     ELSE
     Text("lines",
       YMap("apiVersion" :> Plain("batch/v1") @@
            "kind" :> Plain("CronJob") @@
            "metadata" :> YMap("name" :> Plain("agentctl-cronjob") @@
                               "namespace" :> Plain(namespace)) @@
            "spec" :> YMap("schedule" :> Quoted(schedule) @@
                           "jobTemplate" :> YMap("spec" :> YMap("template" :>
               YMap("metadata" :> YMap("labels" :> YMap("app" :> Plain("agentctl-cronjob"))) @@
                    "spec" :> YMap("restartPolicy" :> Plain("Never") @@
                                   "containers" :> YSeq(<<
                       YMap("name" :> Plain("main") @@
                            "image" :> Plain(image) @@
                            "command" :> YSeq(<<Plain("/bin/sh"), Plain("-c"),
                                                command>>))>>))))))))

(***************************************************************************)
(* The prompts of the model                                                *)
(***************************************************************************)
\* "run a python job to preprocess data"
PromptPreprocess ==
  <<"r", "u", "n", " ", "a", " ", "p", "y", "t", "h", "o", "n", " ", "j",
    "o", "b", " ", "t", "o", " ", "p", "r", "e", "p", "r", "o", "c", "e",
    "s", "s", " ", "d", "a", "t", "a">>

\* "create an nginx deployment with 3 replicas"
PromptNginx ==
  <<"c", "r", "e", "a", "t", "e", " ", "a", "n", " ", "n", "g", "i", "n",
    "x", " ", "d", "e", "p", "l", "o", "y", "m", "e", "n", "t", " ", "w",
    "i", "t", "h", " ", "3", " ", "r", "e", "p", "l", "i", "c", "a", "s">>

\* "schedule a python cleanup job every 5 minutes"
PromptCleanup ==
  <<"s", "c", "h", "e", "d", "u", "l", "e", " ", "a", " ", "p", "y", "t",
    "h", "o", "n", " ", "c", "l", "e", "a", "n", "u", "p", " ", "j", "o",
    "b", " ", "e", "v", "e", "r", "y", " ", "5", " ", "m", "i", "n", "u",
    "t", "e", "s">>

\* "Run python train.py on gpu"
PromptTrain ==
  <<"R", "u", "n", " ", "p", "y", "t", "h", "o", "n", " ", "t", "r", "a",
    "i", "n", ".", "p", "y", " ", "o", "n", " ", "g", "p", "u">>

\* "  "
PromptBlank ==
  <<" ", " ">>

PromptEmpty == <<>>

Prompts == {PromptPreprocess, PromptNginx, PromptCleanup, PromptTrain, PromptBlank, PromptEmpty}

\* "schedule nginx api every hour"
PromptBoth ==
  <<"s", "c", "h", "e", "d", "u", "l", "e", " ", "n", "g", "i", "n", "x",
    " ", "a", "p", "i", " ", "e", "v", "e", "r", "y", " ", "h", "o", "u",
    "r">>

\* "backup the database every day"
PromptDaily ==
  <<"b", "a", "c", "k", "u", "p", " ", "t", "h", "e", " ", "d", "a", "t",
    "a", "b", "a", "s", "e", " ", "e", "v", "e", "r", "y", " ", "d", "a",
    "y">>

\* "cron every day at noon"
PromptCronDaily ==
  <<"c", "r", "o", "n", " ", "e", "v", "e", "r", "y", " ", "d", "a", "y",
    " ", "a", "t", " ", "n", "o", "o", "n">>

\* "EVERY MINUTE not every hour"
PromptMinuteHour ==
  <<"E", "V", "E", "R", "Y", " ", "M", "I", "N", "U", "T", "E", " ", "n",
    "o", "t", " ", "e", "v", "e", "r", "y", " ", "h", "o", "u", "r">>

\* "schedule pytorch training on gpu every hour"
PromptCronTorch ==
  <<"s", "c", "h", "e", "d", "u", "l", "e", " ", "p", "y", "t", "o", "r",
    "c", "h", " ", "t", "r", "a", "i", "n", "i", "n", "g", " ", "o", "n",
    " ", "g", "p", "u", " ", "e", "v", "e", "r", "y", " ", "h", "o", "u",
    "r">>

\* "train a pytorch model on gpu"
PromptJobTorch ==
  <<"t", "r", "a", "i", "n", " ", "a", " ", "p", "y", "t", "o", "r", "c",
    "h", " ", "m", "o", "d", "e", "l", " ", "o", "n", " ", "g", "p", "u">>

\* "serve python pytorch api on GPU"
PromptServeTorch ==
  <<"s", "e", "r", "v", "e", " ", "p", "y", "t", "h", "o", "n", " ", "p",
    "y", "t", "o", "r", "c", "h", " ", "a", "p", "i", " ", "o", "n", " ",
    "G", "P", "U">>

\* "run python etl.py # nightly"
PromptComment ==
  <<"r", "u", "n", " ", "p", "y", "t", "h", "o", "n", " ", "e", "t", "l",
    ".", "p", "y", " ", "#", " ", "n", "i", "g", "h", "t", "l", "y">>

\* "run python job.py --mode: fast"
PromptColon ==
  <<"r", "u", "n", " ", "p", "y", "t", "h", "o", "n", " ", "j", "o", "b",
    ".", "p", "y", " ", "-", "-", "m", "o", "d", "e", ":", " ", "f", "a",
    "s", "t">>

\* prompts that exercise the rules of the classifier one against the other
\* "run python app.py then run tests"
PromptRunTwice ==
  <<"r", "u", "n", " ", "p", "y", "t", "h", "o", "n", " ", "a", "p", "p",
    ".", "p", "y", " ", "t", "h", "e", "n", " ", "r", "u", "n", " ", "t",
    "e", "s", "t", "s">>

ExtraPrompts ==
  {PromptBoth, PromptDaily, PromptCronDaily, PromptMinuteHour, PromptCronTorch, PromptJobTorch,
   PromptServeTorch, PromptComment, PromptColon, PromptRunTwice}

AgentPrompts == Prompts \cup ExtraPrompts

\* the namespaces the templates are filled in for
TemplateNamespaces == {"default", "prod", "7"}

(***************************************************************************)
(* The text-generation services.  A chat completion raises, answers with   *)
(* no choices, answers with no content, or answers with a content: a body  *)
(* that may be wrapped in an opening and a closing code fence.             *)
(***************************************************************************)
PodSpecDoc == YMap("restartPolicy" :> Plain("Never"))

LlmJobDoc ==
  YMap("apiVersion" :> Plain("batch/v1") @@
       "kind" :> Plain("Job") @@
       "metadata" :> YMap("name" :> Plain("llm-job")) @@
       "spec" :> YMap("template" :> YMap("spec" :> PodSpecDoc)))

LlmPodDoc ==
  YMap("apiVersion" :> Plain("v1") @@
       "kind" :> Plain("Pod") @@
       "metadata" :> YMap("name" :> Plain("llm-pod")))

\* a Deployment whose metadata is null: no name to rewrite
LlmNamelessDoc ==
  YMap("apiVersion" :> Plain("apps/v1") @@
       "kind" :> Plain("Deployment") @@
       "metadata" :> Plain("null"))

LlmBodies ==
  {EmptyText, BlankText, Text("padded", LlmJobDoc),
   Text("raw", Plain("Here is the plan")), Text("raw", LlmPodDoc),
   Text("raw", LlmNamelessDoc), Text("raw", YInvalid)}

ChatOutcomes ==
  {[o |-> "raise"], [o |-> "nochoices"], [o |-> "nocontent"]}
  \cup {[o |-> "content", open |-> op, close |-> cl, body |-> b] :
          op \in BOOLEAN, cl \in BOOLEAN, b \in LlmBodies}

\* llm.py lines 20-63: the body of the try block of _hf_call
HfBody(chat) ==
  CASE chat.o = "raise" -> Raise("HfError")
    [] chat.o = "nochoices" -> Return(EmptyText)
    [] chat.o = "nocontent" -> Raise("AttributeError")
    [] chat.o = "content" -> Return(Strip(chat.body))

\* _hf_call(prompt): `except Exception: return ""`
_hf_call(chat) ==
  LET r == HfBody(chat)
  IN IF r.ok THEN r ELSE Return(EmptyText)

\* an ask_llm call ends with the outcome of the chat completion, or fails
\* before it when the event loop's executor refuses the job
AskOutcomes == ChatOutcomes \cup {[o |-> "executor_error"]}

\* ask_llm(prompt)
ask_llm(ask) ==
  IF ask.o = "executor_error" THEN Raise("RuntimeError") ELSE _hf_call(ask)

\* the collaborator signalled an error in this call
CallFailed(ask) == ask.o \in {"executor_error", "raise"}

\* agent.py lines 263-272: the content OpenAI returned, fences stripped
\* (`content or fallback_yaml`; the closing fence is cut only after an
\* opening one, so a body with a closing fence alone keeps it)
OpenAiContent(chat, fallback_yaml) ==
  IF chat.o = "nocontent" \/ (chat.body = EmptyText /\ ~chat.open /\ ~chat.close)
  THEN Strip(fallback_yaml)
  ELSE IF ~chat.open /\ chat.close /\ Strip(chat.body) # EmptyText
       THEN Text("fenced", YInvalid)
  ELSE Strip(chat.body)

\* K8sAgent.maybe_llm_yaml(text, kind, namespace, fallback_yaml); use_openai
\* is AGENTCTL_USE_LLM=true with an API key and the openai package present
maybe_llm_yaml(fallback_yaml, use_openai, chat) ==
  IF ~use_openai THEN Return(fallback_yaml)
  ELSE IF chat.o = "raise" THEN Raise("OpenAIError")
  ELSE IF chat.o = "nochoices" THEN Raise("IndexError")
  ELSE Return(OpenAiContent(chat, fallback_yaml))

\* kind.lower() for the kinds of the model
KindLower(k) ==
  CASE k \in {"Auto", "auto", "AUTO"} -> "auto"
    [] k = "Job" -> "job"
    [] k = "Deployment" -> "deployment"
    [] k = "CronJob" -> "cronjob"
    [] k = "Pod" -> "pod"
    [] OTHER -> k

\* agent.py lines 286-292: the template of kind k filled in for the text
TemplateYaml(k, text, namespace) ==
  CASE k = "Job" -> job_request_to_yaml(nl_to_job_request(text, namespace))
    [] k = "Deployment" -> nl_to_deployment_yaml(text, namespace)
    [] k = "CronJob" -> nl_to_cronjob_yaml(text, namespace)

\* What infer_kind and TemplateYaml give on the prompts and namespaces of the
\* model, computed once
InferKindOf == [text \in AgentPrompts |-> infer_kind(text)]

TemplateYamlOf ==
  [k \in {"Job", "Deployment", "CronJob"} |->
    [text \in AgentPrompts |->
      [namespace \in TemplateNamespaces |-> TemplateYaml(k, text, namespace)]]]

\* agent.py lines 283-284: the kind asked for, or the one infer_kind finds
KindFor(text, kind) ==
  IF ~Truthy(kind) \/ KindLower(kind.v) = "auto" THEN InferKindOf[text] ELSE kind.v

\* K8sAgent.nl_to_resource_yaml(text, namespace, kind): kind is PyNone or a
\* PyStr; the value returned is the pair (kind, yaml)
\* agent.py line 297: the pair (kind, final_yaml), unless maybe_llm_yaml raised
KindAndYaml(k, final_yaml) ==
  IF final_yaml.ok THEN Return(<<k, final_yaml.v>>) ELSE final_yaml

\* agent.py lines 286-297: the template of kind k, then its refinement
ResourceYamlOfKind(k, text, namespace, use_openai, chat) ==
  IF k \notin {"Job", "Deployment", "CronJob"} THEN Raise("ValueError")
  ELSE KindAndYaml(k, maybe_llm_yaml(TemplateYamlOf[k][text][namespace],
                                     use_openai, chat))

nl_to_resource_yaml(text, namespace, kind, use_openai, chat) ==
  ResourceYamlOfKind(KindFor(text, kind), text, namespace, use_openai, chat)

(***************************************************************************)
(* K8sClient.apply_manifest: the Cluster Gateway.                          *)
(***************************************************************************)
HttpStatuses == {200, 201, 202, 409}

\* the exchange raises (connection refused, timeout) or a response arrives,
\* whose body is JSON or not
HttpOutcomes ==
  {[o |-> "error"]}
  \cup {[o |-> "response", status |-> c, json |-> j] : c \in HttpStatuses, j \in BOOLEAN}

ApplyResult(success, message, raw) ==
  [success |-> success, message |-> message, raw_response |-> raw]

\* the body of a response: a JSON object, or a text that is no JSON
ResponseJson == PyDict("kind" :> PyStr("Status"))

ResponseText == "Bad Gateway"

\* k8s_client.py lines 91-94: raw = resp.json(), or {"raw_text": resp.text}
RawOf(http) ==
  IF http.json THEN ResponseJson ELSE PyDict("raw_text" :> PyStr(ResponseText))

\* f"{raw}" for a dict with one key and a str under it
ReprDict(d) ==
  LET k == CHOOSE k \in DOMAIN d.m : TRUE
  IN "{'" \o k \o "': '" \o d.m[k].v \o "'}"

\* a variant that takes every 2xx status for a success
IsSuccessStatus_2xx(status_code) == status_code \in 200..299

\* k8s_client.py line 96: resp.status_code in (200, 201)
IsSuccessStatus(status_code) == status_code \in {200, 201}

\* a variant that always uses the client's namespace
ManifestNamespace_Default(metadata, self_namespace) == PyStr(self_namespace)

\* k8s_client.py line 78: metadata.get("namespace", self.namespace)
ManifestNamespace(metadata, self_namespace) ==
  DictGet(metadata, "namespace", PyStr(self_namespace))

\* what apply_manifest did: its outcome and the requests it sent
Applied(res, posts) == [res |-> res, posts |-> posts]

\* K8sClient.apply_manifest(manifest_yaml) on a client whose default
\* namespace is self_namespace
apply_manifest(manifest_yaml, self_namespace, http) ==
  LET ld == safe_load(manifest_yaml)
  IN IF ~ld.ok THEN Applied(Return(ApplyResult(FALSE, "Invalid YAML", PyNone)), <<>>)
     ELSE IF ld.v.t # "dict"
     THEN Applied(Return(ApplyResult(FALSE, "Manifest must be a single YAML object.", PyNone)), <<>>)
     ELSE LET manifest == ld.v
              kind == DictGet(manifest, "kind", PyNone)
              metadata == DictGet(manifest, "metadata", EmptyDict)
          IN IF ~HasGet(metadata) THEN Applied(Raise("AttributeError"), <<>>)
             ELSE LET name == DictGet(metadata, "name", PyStr("<unnamed>"))
                      namespace == ManifestNamespace(metadata, self_namespace)
                      path ==
                        CASE kind = PyStr("Job") ->
                               "/apis/batch/v1/namespaces/" \o Format(namespace) \o "/jobs"
                          [] kind = PyStr("Deployment") ->
                               "/apis/apps/v1/namespaces/" \o Format(namespace) \o "/deployments"
                          [] kind = PyStr("CronJob") ->
                               "/apis/batch/v1/namespaces/" \o Format(namespace) \o "/cronjobs"
                          [] OTHER -> ""
                      post == [method |-> "POST", path |-> path, json_body |-> manifest]
                  IN IF path = ""
                     THEN Applied(Return(ApplyResult(FALSE,
                            "Unsupported kind: " \o Format(kind), PyNone)), <<>>)
                     ELSE IF http.o = "error"
                     THEN Applied(Raise("RequestException"), <<post>>)
                     ELSE LET raw == RawOf(http)
                          IN IF IsSuccessStatus(http.status)
                             THEN Applied(Return(ApplyResult(TRUE,
                                    "Created " \o Format(kind) \o " '" \o Format(name)
                                      \o "' in ns '" \o Format(namespace) \o "'.", raw)),
                                    <<post>>)
                             ELSE Applied(Return(ApplyResult(FALSE,
                                    "K8s API error " \o IntToStr(http.status) \o ": "
                                      \o ReprDict(raw), raw)),
                                    <<post>>)

(***************************************************************************)
(* Manifest texts handed to the disambiguators: every shape of kind,       *)
(* metadata and spec the code distinguishes, and texts that are no mapping *)
(***************************************************************************)
KindDocs ==
  {Absent, Plain("Job"), Plain("Deployment"), Plain("CronJob"), Plain("Pod"),
   YSeq(<<Plain("Job")>>)}

NameDocs == {Absent, Plain(""), Quoted(""), Plain("web"), Quoted("7"), Plain("0")}

MetaDocs ==
  {Absent, Plain("null"), Plain("oops"), YSeq(<<Plain("x")>>), YMap(<<>>)}
  \cup {YMapOf("name" :> n @@ "namespace" :> Plain("prod")) : n \in NameDocs}

LabelsDocs ==
  {Absent, Plain("null"), Plain("oops"), YSeq(<<Plain("x")>>),
   YMap("app" :> Plain("old")), YMap("tier" :> Plain("db"))}

TmplMetaDocs ==
  {Absent, Plain("null"), Plain("oops")} \cup {YMapOf("labels" :> l) : l \in LabelsDocs}

TemplateDocs ==
  {Absent, Plain("null"), Plain("oops")}
  \cup {YMapOf("metadata" :> m @@ "spec" :> PodSpecDoc) : m \in TmplMetaDocs}

InnerSpecDocs ==
  {Absent, Plain("null")} \cup {YMapOf("template" :> t) : t \in TemplateDocs}

JobTemplateDocs ==
  {Absent, Plain("null"), Plain("oops")} \cup {YMapOf("spec" :> js) : js \in InnerSpecDocs}

SpecDocs ==
  {Absent, Plain("null"), Plain("oops")}
  \cup {YMapOf("schedule" :> Quoted("* * * * *") @@ "jobTemplate" :> jt) :
          jt \in JobTemplateDocs}

MappingDocs ==
  {YMapOf("kind" :> k @@ "metadata" :> m @@ "spec" :> sp) :
     k \in KindDocs, m \in MetaDocs, sp \in SpecDocs}

NonMappingTexts ==
  {EmptyText, BlankText, Text("raw", YInvalid), Text("raw", Plain("hello")),
   Text("raw", Plain("")), Text("raw", YSeq(<<Plain("a")>>))}

\* a Deployment whose pod template takes the metadata of the Deployment:
\* `metadata: &m {...}` and `template: {metadata: *m, ...}`
SharedMetaDoc ==
  YMap("kind" :> Plain("Deployment") @@
       "metadata" :> YMap("name" :> Plain("web") @@
                          "labels" :> YMap("app" :> Plain("web"))) @@
       "spec" :> YMap("selector" :> YMap("matchLabels" :> YMap("app" :> Plain("web"))) @@
                      "template" :> YMap("metadata" :> YAlias(<<"metadata">>) @@
                                         "spec" :> PodSpecDoc)))

\* a CronJob whose pods take the labels of the CronJob: `labels: &l {...}`
\* under metadata and `labels: *l` in the pod template
SharedLabelsDoc ==
  YMap("kind" :> Plain("CronJob") @@
       "metadata" :> YMap("name" :> Plain("nightly") @@
                          "labels" :> YMap("app" :> Plain("nightly") @@
                                           "tier" :> Plain("db"))) @@
       "spec" :> YMap("schedule" :> Quoted("0 0 * * *") @@
                      "jobTemplate" :> YMap("spec" :> YMap("template" :>
                         YMap("metadata" :>
                                YMap("labels" :> YAlias(<<"metadata", "labels">>)) @@
                              "spec" :> PodSpecDoc)))))

\* manifests written with an anchor and an alias
AliasDocs == {SharedMetaDoc, SharedLabelsDoc}

RenameInputs ==
  NonMappingTexts \cup {Text("raw", d) : d \in MappingDocs \cup AliasDocs}

(***************************************************************************)
(* Inputs of the handlers                                                  *)
(***************************************************************************)
\* settings.k8s_namespace when K8S_NAMESPACE is not set
SettingsNamespace == "default"

\* the namespace of a request: None or a string
Namespaces == {PyNone, PyStr("prod")}

\* the kind of a request: None, "Auto", a supported kind or something else
RequestKinds ==
  {PyNone, PyStr("Auto"), PyStr("Job"), PyStr("Deployment"), PyStr("CronJob"), PyStr("Pod")}

\* the choices of the dashboard's kind dropdown
DropdownKinds == {PyStr("Auto"), PyStr("Job"), PyStr("Deployment"), PyStr("CronJob")}

UserJobDoc ==
  YMap("apiVersion" :> Plain("batch/v1") @@
       "kind" :> Plain("Job") @@
       "metadata" :> YMap("name" :> Plain("web") @@ "namespace" :> Plain("prod")) @@
       "spec" :> YMap("template" :> YMap("spec" :> PodSpecDoc)))

UserCronJobDoc ==
  YMap("apiVersion" :> Plain("batch/v1") @@
       "kind" :> Plain("CronJob") @@
       "metadata" :> YMap("name" :> Plain("nightly")) @@
       "spec" :> YMap("schedule" :> Quoted("0 0 * * *") @@
                      "jobTemplate" :> YMap("spec" :> YMap("template" :>
                         YMap("spec" :> PodSpecDoc)))))

\* the manifests a user writes by hand
UserTexts ==
  {EmptyText, BlankText, Text("raw", YInvalid), Text("raw", UserJobDoc),
   Text("raw", UserCronJobDoc), Text("raw", LlmPodDoc),
   Text("raw", YMap("kind" :> Plain("Job") @@ "metadata" :> Plain("null")))}

\* the number of requests and clicks in a behaviour
MaxOps == 2

\* a python str that holds a text
PyText(text) == [t |-> "str", text |-> text]

\* x[key]
Subscript(x, key) ==
  IF x.t # "dict" THEN Raise("TypeError")
  ELSE IF key \in DOMAIN x.m THEN Return(x.m[key]) ELSE Raise("KeyError")

\* not s or len(s.strip()) == 0
IsBlank(text) == Strip(text) = EmptyText

(***************************************************************************)
(* State                                                                   *)
(*   fnIn, fnBy, fnOut  a call of a disambiguator on its own: the text     *)
(*                      given, the function called ("" before the call),   *)
(*                      and the outcome of the call                        *)
(*   use_llm            AGENTCTL_USE_LLM with an OpenAI key: K8sAgent asks *)
(*                      OpenAI to rewrite its template                     *)
(*   held, heldRenames  the manifest in the dashboard's yaml box or in the *)
(*                      API client's hands, and how often a disambiguator  *)
(*                      has rewritten it                                   *)
(*   agPc, agReq        POST /agent: where the handler is ("idle", "plan", *)
(*                      "yaml", "generated"; "openai" while the fallback's *)
(*                      OpenAI call runs on the event loop's thread) and   *)
(*                      its payload                                        *)
(*   genCalls           ask_llm calls issued by the generate_yaml call     *)
(*   genOpenAi          OpenAI calls issued by the generate_yaml call      *)
(*   genPlanFailed      the plan call signalled an error                   *)
(*   genYamlFailed      the plan-to-YAML call signalled an error or gave   *)
(*                      an empty result                                    *)
(*   genRet, genRenamed the outcome of generate_yaml, and whether the text *)
(*                      it returns went through randomize_name             *)
(*   genYamlText        what the plan-to-YAML ask_llm call came back with  *)
(*   genFallbacks       calls of K8sAgent.nl_to_resource_yaml made by the  *)
(*                      generate_yaml call                                 *)
(*   resp               the response of the last handler that finished     *)
(*   lastSent           the last create request sent to the cluster and    *)
(*                      how often its manifest was rewritten               *)
(*   ops                requests and clicks so far                         *)
(*   logCall            follow_pod_logs: the arguments of the generator    *)
(*   logPc              where the generator is: "idle" (not created),      *)
(*                      "created", "yielded" and "told" (suspended at the  *)
(*                      yield of line 180 / 174), "returned", "raised"     *)
(*   logFetches         get_pod_logs requests the generator has issued     *)
(*   logYields          values the generator has yielded                   *)
(*   logSleeps          seconds the generator has slept                    *)
(*   logLast            the value yielded last                             *)
(*   logStopped         the consumer has stopped consuming                 *)
(***************************************************************************)
VARIABLES fnIn, fnBy, fnOut, use_llm, held, heldRenames, agPc, agReq, genCalls,
          genOpenAi, genPlanFailed, genYamlFailed, genRet, genRenamed,
          genYamlText, genFallbacks, resp,
          lastSent, ops, logCall, logPc, logFetches, logYields, logSleeps,
          logLast, logStopped

fnVars == <<fnIn, fnBy, fnOut>>

genVars == <<genCalls, genOpenAi, genPlanFailed, genYamlFailed, genRet, genRenamed,
             genYamlText, genFallbacks>>

agVars == <<agPc, agReq>>

logVars == <<logCall, logPc, logFetches, logYields, logSleeps, logLast, logStopped>>

vars == <<fnIn, fnBy, fnOut, use_llm, held, heldRenames, agPc, agReq, genCalls,
          genOpenAi, genPlanFailed, genYamlFailed, genRet, genRenamed,
          genYamlText, genFallbacks, resp,
          lastSent, ops, logCall, logPc, logFetches, logYields, logSleeps,
          logLast, logStopped>>

NotCalled == [ok |-> FALSE, e |-> "not called"]

NoRequest == [instruction |-> <<>>, namespace |-> PyNone, kind |-> PyNone]

NoResponse == [route |-> "", status |-> 0]

NothingSent == [via |-> "", post |-> PyNone, renames |-> 0]

NoLogCall == [pod_name |-> <<>>, tail_lines |-> 0]

\* no log generator has been created
LogIdle ==
  /\ logCall = NoLogCall
  /\ logPc = "idle"
  /\ logFetches = 0
  /\ logYields = 0
  /\ logSleeps = 0
  /\ logLast = ""
  /\ logStopped = FALSE

SystemIdle ==
  /\ held = EmptyText
  /\ heldRenames = 0
  /\ agPc = "idle"
  /\ agReq = NoRequest
  /\ genCalls = 0
  /\ genOpenAi = 0
  /\ genPlanFailed = FALSE
  /\ genYamlFailed = FALSE
  /\ genRet = NotCalled
  /\ genRenamed = FALSE
  /\ genYamlText = NotCalled
  /\ genFallbacks = 0
  /\ resp = NoResponse
  /\ lastSent = NothingSent
  /\ ops = 0
  /\ LogIdle

sysVars == <<use_llm, held, heldRenames, agPc, agReq, genCalls, genOpenAi,
             genPlanFailed, genYamlFailed, genRet, genRenamed, genYamlText,
             genFallbacks, resp, lastSent, ops, logVars>>

\* a call of _inject_unique_name(fnIn)
CallInject ==
  /\ fnBy = ""
  /\ \E u \in Uuid4Strs :
       /\ fnOut' = _inject_unique_name(fnIn, u)
       /\ fnBy' = "_inject_unique_name"
  /\ UNCHANGED <<fnIn, sysVars>>

\* a call of randomize_name(fnIn)
CallRandomize ==
  /\ fnBy = ""
  /\ \E u \in Uuid4Strs :
       /\ fnOut' = randomize_name(fnIn, u)
       /\ fnBy' = "randomize_name"
  /\ UNCHANGED <<fnIn, sysVars>>

InitRename ==
  /\ fnIn \in RenameInputs
  /\ fnBy = ""
  /\ fnOut = NotCalled
  /\ use_llm = FALSE
  /\ SystemIdle

NextRename == CallInject \/ CallRandomize

SpecRename == InitRename /\ [][NextRename]_vars

(***************************************************************************)
(* Reading a manifest: the value at a path of keys, PyNone where the path  *)
(* leaves the tree.                                                        *)
(***************************************************************************)
RECURSIVE AtPath(_, _)
AtPath(x, path) ==
  IF path = <<>> THEN x
  ELSE IF x.t = "dict" /\ Head(path) \in DOMAIN x.m
       THEN AtPath(x.m[Head(path)], Tail(path))
       ELSE PyNone

\* the parsed tree of a text, PyNone when it does not parse
TreeOf(text) == IF safe_load(text).ok THEN safe_load(text).v ELSE PyNone

KindOf(text) == AtPath(TreeOf(text), <<"kind">>)

NameOf(text) == AtPath(TreeOf(text), <<"metadata", "name">>)

LabelAppPath == <<"spec", "jobTemplate", "spec", "template", "metadata", "labels", "app">>

\* s is base followed by "-" and the first five characters of a uuid
IsSuffixed(s, base) ==
  /\ Len(s) = Len(base) + 6
  /\ \E u \in Uuid4Strs : s = base \o "-" \o Join(SubSeq(u, 1, 5))

\* the text is a mapping of a supported kind with a non-empty string as name
Renamable(text) ==
  /\ TreeOf(text).t = "dict"
  /\ KindOf(text) \in SupportedKinds
  /\ NameOf(text).t = "str"
  /\ NameOf(text).v # ""

\* x is present at this place of the text but is no mapping (null included)
NoMapping(text, path) ==
  /\ TreeOf(text).t = "dict"
  /\ \E d \in {AtPath(TreeOf(text), SubSeq(path, 1, Len(path) - 1))} :
       d.t = "dict" /\ path[Len(path)] \in DOMAIN d.m
  /\ AtPath(TreeOf(text), path).t # "dict"

\* the output of the call is the input renamed: it parses and its
\* metadata.name is the input's name, "-" and five characters
RenamedOutput ==
  /\ fnOut.ok
  /\ safe_load(fnOut.v).ok
  /\ NameOf(fnOut.v).t = "str"
  /\ IsSuffixed(NameOf(fnOut.v).v, NameOf(fnIn).v)

\* C7 (as claimed): a disambiguator called on a mapping of kind Job,
\* Deployment or CronJob with a non-empty name N returns a text that parses
\* and whose metadata.name is N, "-" and five characters; called on a mapping
\* of another kind or with no metadata.name it returns the text it was given.
C7_Original ==
  fnBy # "" =>
    /\ Renamable(fnIn) => RenamedOutput
    /\ (TreeOf(fnIn).t = "dict"
        /\ (KindOf(fnIn) \notin SupportedKinds \/ NameOf(fnIn) = PyNone)) =>
         fnOut = Return(fnIn)

\* x is present at this place of the text, is truthy and is no mapping
TruthyNoMapping(text, path) ==
  NoMapping(text, path) /\ Truthy(AtPath(TreeOf(text), path))

\* the walk of _inject_unique_name to the pod labels of a CronJob meets
\* something that is no mapping
LabelWalkFails(text) ==
  \/ NoMapping(text, <<"spec">>)
  \/ NoMapping(text, <<"spec", "jobTemplate">>)
  \/ NoMapping(text, <<"spec", "jobTemplate", "spec">>)
  \/ TruthyNoMapping(text, <<"spec", "jobTemplate", "spec", "template", "metadata">>)
  \/ TruthyNoMapping(text,
       <<"spec", "jobTemplate", "spec", "template", "metadata", "labels">>)

\* C7 (amended): as claimed, except that _inject_unique_name returns a named
\* CronJob unchanged when its walk to the pod labels meets a spec,
\* jobTemplate, jobTemplate.spec, template metadata or labels that is no
\* mapping.
C7_Disambiguate ==
  fnBy # "" =>
    /\ (Renamable(fnIn)
        /\ ~(/\ fnBy = "_inject_unique_name"
             /\ KindOf(fnIn) = PyStr("CronJob")
             /\ LabelWalkFails(fnIn))) => RenamedOutput
    /\ (/\ Renamable(fnIn)
        /\ fnBy = "_inject_unique_name"
        /\ KindOf(fnIn) = PyStr("CronJob")
        /\ LabelWalkFails(fnIn)) => fnOut = Return(fnIn)
    /\ (TreeOf(fnIn).t = "dict"
        /\ (KindOf(fnIn) \notin SupportedKinds \/ NameOf(fnIn) = PyNone)) =>
         fnOut = Return(fnIn)

C7_Witness ==
  /\ fnBy # ""
  /\ Renamable(fnIn)
  /\ fnOut.ok
  /\ NameOf(fnOut.v) = PyStr("web-3f9a1")

\* C8 (as claimed): after a disambiguator has rewritten a CronJob with a name,
\* the app label of the job template's pods equals the new name.
C8_CronJobLabel ==
  (fnBy # "" /\ Renamable(fnIn) /\ KindOf(fnIn) = PyStr("CronJob")) =>
    /\ fnOut.ok
    /\ AtPath(TreeOf(fnOut.v), LabelAppPath) = NameOf(fnOut.v)

\* the text is unparseable, no mapping, or has a metadata, spec or
\* jobTemplate that is null or no mapping
Malformed(text) ==
  \/ ~safe_load(text).ok
  \/ TreeOf(text).t # "dict"
  \/ NoMapping(text, <<"metadata">>)
  \/ NoMapping(text, <<"spec">>)
  \/ NoMapping(text, <<"spec", "jobTemplate">>)

\* C9 (as claimed): a disambiguator never raises and returns a malformed text
\* unchanged.
C9_Original ==
  fnBy # "" => (fnOut.ok /\ (Malformed(fnIn) => fnOut.v = fnIn))

\* C9 (amended): a disambiguator never raises; it returns the text unchanged
\* when the text is unparseable, is no mapping or has a metadata that is no
\* mapping, and, in _inject_unique_name on a CronJob, when spec or jobTemplate
\* is no mapping; a malformed spec it does not walk does not stop the rename.
C9_Tolerant ==
  fnBy # "" =>
    /\ fnOut.ok
    /\ (\/ ~safe_load(fnIn).ok
        \/ TreeOf(fnIn).t # "dict"
        \/ NoMapping(fnIn, <<"metadata">>)) => fnOut.v = fnIn
    /\ (/\ fnBy = "_inject_unique_name"
        /\ KindOf(fnIn) = PyStr("CronJob")
        /\ \/ NoMapping(fnIn, <<"spec">>)
           \/ NoMapping(fnIn, <<"spec", "jobTemplate">>)) => fnOut.v = fnIn
    /\ (/\ Renamable(fnIn)
        /\ NoMapping(fnIn, <<"spec">>)
        /\ \/ fnBy = "randomize_name"
           \/ KindOf(fnIn) # PyStr("CronJob")) => fnOut.v # fnIn

C9_Witness ==
  /\ fnBy = "_inject_unique_name"
  /\ Renamable(fnIn)
  /\ KindOf(fnIn) = PyStr("CronJob")
  /\ NoMapping(fnIn, <<"spec">>)
  /\ fnOut = Return(fnIn)

\* p leads to q or to a place above q
IsPrefix(p, q) == Len(p) <= Len(q) /\ SubSeq(q, 1, Len(p)) = p

\* the places a rename may write: metadata.name and, in a CronJob, the app
\* label of the pod template
RenamePaths(text) ==
  {<<"metadata", "name">>}
  \cup (IF KindOf(text) = PyStr("CronJob") THEN {LabelAppPath} ELSE {})

\* p is neither above nor below a place a rename may write
OffRename(text, p) ==
  \A a \in RenamePaths(text) : ~IsPrefix(p, a) /\ ~IsPrefix(a, p)

\* both texts parse, and every path off the rename is in both trees or in
\* neither and holds the same value
SameOffRename(before, after) ==
  /\ safe_load(before).ok
  /\ safe_load(after).ok
  /\ \A p \in PathsOf(TreeOf(before)) \cup PathsOf(TreeOf(after)) :
       OffRename(before, p) =>
         /\ p \in PathsOf(TreeOf(before))
         /\ p \in PathsOf(TreeOf(after))
         /\ AtPath(TreeOf(before), p) = AtPath(TreeOf(after), p)

\* the name of the second text is the name of the first, "-" and five
\* characters, and an app label that differs from the first text's is that
\* new name
RenameApplied(before, after) ==
  /\ NameOf(before).t = "str"
  /\ NameOf(after).t = "str"
  /\ IsSuffixed(NameOf(after).v, NameOf(before).v)
  /\ AtPath(TreeOf(after), LabelAppPath) \in
       {AtPath(TreeOf(before), LabelAppPath), NameOf(after)}

\* the text is written without aliases
AliasFree(text) == \/ text.doc = YInvalid
                   \/ AliasPaths(text.doc) = {}

\* a disambiguator changes nothing but the name of a manifest written
\* without aliases
FrameOfAliasFree ==
  (fnBy \in {"_inject_unique_name", "randomize_name"} /\ AliasFree(fnIn)) =>
    /\ fnOut.ok
    /\ \/ fnOut.v = fnIn
       \/ /\ SameOffRename(fnIn, fnOut.v)
          /\ RenameApplied(fnIn, fnOut.v)

\* C23 (as claimed): a disambiguator changes nothing but the name.  It
\* returns the text it was given, or a text whose tree has the new name (and,
\* in a CronJob, the app label of the pod template) and holds at every other
\* path (kind, metadata.namespace, selector, labels, containers, ...) what
\* the tree of the input holds there; it never returns a document that is
\* rewritten in part.
C23_Frame ==
  fnBy \in {"_inject_unique_name", "randomize_name"} =>
    /\ fnOut.ok
    /\ \/ fnOut.v = fnIn
       \/ /\ SameOffRename(fnIn, fnOut.v)
          /\ RenameApplied(fnIn, fnOut.v)

(***************************************************************************)
(* K8sClient.apply_manifest on its own: fnIn is the manifest text, the     *)
(* client's default namespace and what the HTTP exchange will do; fnOut is *)
(* the outcome of the call and the requests it sent.                       *)
(***************************************************************************)
\* manifests whose metadata has no namespace, or a namespace that is null
\* or a number
NamespaceDocs == {Absent, Plain("null"), Plain("7"), Plain("prod")}

ApplyExtraDocs ==
  {YMapOf("kind" :> k @@
          "metadata" :> YMapOf("name" :> Plain("web") @@ "namespace" :> n)) :
     k \in KindDocs, n \in NamespaceDocs}

\* K8sClient(namespace=...): the default namespace of the client
ClientNamespaces == {"default", "staging"}

ApplyInputs ==
  [manifest_yaml : RenameInputs \cup {Text("raw", d) : d \in ApplyExtraDocs},
   self_namespace : ClientNamespaces,
   http : HttpOutcomes]

\* a call of K8sClient(namespace).apply_manifest(manifest_yaml)
CallApply ==
  /\ fnBy = ""
  /\ fnOut' = apply_manifest(fnIn.manifest_yaml, fnIn.self_namespace, fnIn.http)
  /\ fnBy' = "apply_manifest"
  /\ UNCHANGED <<fnIn, sysVars>>

InitApply ==
  /\ fnIn \in ApplyInputs
  /\ fnBy = ""
  /\ fnOut = NotCalled
  /\ use_llm = FALSE
  /\ SystemIdle

NextApply == CallApply

SpecApply == InitApply /\ [][NextApply]_vars

ApplyCalled == fnBy = "apply_manifest"

\* the text parses to a mapping whose kind is Job, Deployment or CronJob
SupportedManifest(text) ==
  TreeOf(text).t = "dict" /\ KindOf(text) \in SupportedKinds

\* the metadata of the text is a mapping with a namespace key
HasNamespace(text) ==
  LET m == AtPath(TreeOf(text), <<"metadata">>)
  IN m.t = "dict" /\ "namespace" \in DOMAIN m.m

\* C11 (as claimed): apply_manifest sends no request and returns a failure
\* ApplyResult when the text does not parse, is no mapping or has a kind
\* other than Job, Deployment, CronJob; in every other case it sends exactly
\* one POST.
C11_RequestCount ==
  ApplyCalled =>
    IF SupportedManifest(fnIn.manifest_yaml)
    THEN /\ Len(fnOut.posts) = 1
         /\ fnOut.posts[1].method = "POST"
    ELSE /\ fnOut.posts = <<>>
         /\ fnOut.res.ok
         /\ ~fnOut.res.v.success

\* C12: when a response arrives for the POST, apply_manifest returns an
\* ApplyResult whose success is true exactly for status 200 and 201; for any
\* other status (202 included) success is false and the message carries the
\* status code and the body of the response.
C12_StatusMapping ==
  (ApplyCalled /\ fnOut.posts # <<>> /\ fnIn.http.o = "response") =>
    /\ fnOut.res.ok
    /\ fnOut.res.v.success <=> fnIn.http.status \in {200, 201}
    /\ ~fnOut.res.v.success =>
         fnOut.res.v.message =
           "K8s API error " \o IntToStr(fnIn.http.status) \o ": "
             \o (IF fnIn.http.json THEN "{'kind': 'Status'}"
                 ELSE "{'raw_text': 'Bad Gateway'}")

C12_Witness ==
  /\ ApplyCalled
  /\ fnOut.posts # <<>>
  /\ fnIn.http.o = "response"
  /\ fnIn.http.status = 202
  /\ fnOut.res.ok
  /\ ~fnOut.res.v.success

\* C13 (as claimed): apply_manifest never raises; every failure comes back
\* as an ApplyResult with success false.
C13_Total == ApplyCalled => fnOut.res.ok

\* the collection path of a kind under a namespace
CollectionPath(kind, ns) ==
  CASE kind = PyStr("Job") -> "/apis/batch/v1/namespaces/" \o ns \o "/jobs"
    [] kind = PyStr("Deployment") -> "/apis/apps/v1/namespaces/" \o ns \o "/deployments"
    [] kind = PyStr("CronJob") -> "/apis/batch/v1/namespaces/" \o ns \o "/cronjobs"

\* C14: the POST of apply_manifest goes to the collection path of the
\* manifest's kind, under metadata.namespace when the metadata has that key
\* and under the client's default namespace when it has not.
C14_Endpoint ==
  (ApplyCalled /\ fnOut.posts # <<>>) =>
    /\ Len(fnOut.posts) = 1
    /\ SupportedManifest(fnIn.manifest_yaml)
    /\ fnOut.posts[1].path =
         CollectionPath(KindOf(fnIn.manifest_yaml),
           IF HasNamespace(fnIn.manifest_yaml)
           THEN Format(AtPath(TreeOf(fnIn.manifest_yaml), <<"metadata", "namespace">>))
           ELSE fnIn.self_namespace)

C14_Witness ==
  /\ ApplyCalled
  /\ KindOf(fnIn.manifest_yaml) = PyStr("CronJob")
  /\ ~HasNamespace(fnIn.manifest_yaml)
  /\ fnIn.self_namespace = "staging"
  /\ Len(fnOut.posts) = 1
  /\ fnOut.posts[1].path = "/apis/batch/v1/namespaces/staging/cronjobs"

(***************************************************************************)
(* K8sAgent on its own: fnIn is the text, the namespace and the kind asked *)
(* for; fnOut is what infer_kind, nl_to_job_request or                     *)
(* nl_to_resource_yaml returns (OpenAI switched off).                      *)
(***************************************************************************)
AgentInputs ==
  [text : AgentPrompts, namespace : TemplateNamespaces, kind : RequestKinds]

\* a call of K8sAgent().infer_kind(text)
CallInferKind ==
  /\ fnBy = ""
  /\ fnOut' = Return(PyStr(infer_kind(fnIn.text)))
  /\ fnBy' = "infer_kind"
  /\ UNCHANGED <<fnIn, sysVars>>

\* a call of K8sAgent().nl_to_resource_yaml(text, namespace, kind)
CallResource ==
  /\ fnBy = ""
  /\ fnOut' = nl_to_resource_yaml(fnIn.text, fnIn.namespace, fnIn.kind, FALSE,
                                  [o |-> "raise"])
  /\ fnBy' = "nl_to_resource_yaml"
  /\ UNCHANGED <<fnIn, sysVars>>

InitAgent ==
  /\ fnIn \in AgentInputs
  /\ fnBy = ""
  /\ fnOut = NotCalled
  /\ use_llm = FALSE
  /\ SystemIdle

\* a call of K8sAgent().nl_to_job_request(text, namespace)
CallJobRequest ==
  /\ fnBy = ""
  /\ fnOut' = Return(nl_to_job_request(fnIn.text, fnIn.namespace))
  /\ fnBy' = "nl_to_job_request"
  /\ UNCHANGED <<fnIn, sysVars>>

NextAgent == CallInferKind \/ CallResource \/ CallJobRequest

SpecAgent == InitAgent /\ [][NextAgent]_vars

\* the lowercased text contains one of the words
Mentions(text, words) == \E w \in words : Contains(Lower(text), w)

\* nl_to_resource_yaml has returned a manifest
Rendered == fnBy = "nl_to_resource_yaml" /\ fnOut.ok

RenderedKind == fnOut.v[1]

RenderedYaml == fnOut.v[2]

\* the kind was left to infer_kind
AutoKind == fnIn.kind \in {PyNone, PyStr("Auto")}

\* the first container of the pod template of a manifest, PyNone without one
ContainerOf(text) ==
  LET podSpec == IF KindOf(text) = PyStr("CronJob")
                 THEN <<"spec", "jobTemplate", "spec", "template", "spec">>
                 ELSE <<"spec", "template", "spec">>
      cs == AtPath(TreeOf(text), podSpec \o <<"containers">>)
  IN IF cs.t = "list" /\ Len(cs.s) >= 1 THEN cs.s[1] ELSE PyNone

\* C15: infer_kind is a priority chain over case-insensitive substring
\* matches: CronJob when a CronJob keyword occurs (Deployment keywords or
\* not), else Deployment when a Deployment keyword occurs, else Job.
C15_KindPriority ==
  fnBy = "infer_kind" =>
    /\ fnOut.ok
    /\ fnOut.v \in {PyStr("CronJob"), PyStr("Deployment"), PyStr("Job")}
    /\ Mentions(fnIn.text, CronWords) => fnOut.v = PyStr("CronJob")
    /\ (~Mentions(fnIn.text, CronWords) /\ Mentions(fnIn.text, DeploymentWords)) =>
         fnOut.v = PyStr("Deployment")
    /\ (~Mentions(fnIn.text, CronWords) /\ ~Mentions(fnIn.text, DeploymentWords)) =>
         fnOut.v = PyStr("Job")

C15_Witness ==
  /\ fnBy = "infer_kind"
  /\ Mentions(fnIn.text, CronWords)
  /\ Mentions(fnIn.text, DeploymentWords)
  /\ fnOut = Return(PyStr("CronJob"))

\* C16 (as claimed): for a text with "gpu" and "pytorch" the manifest of any
\* kind uses the pytorch CUDA image and requests cpu 2000m and memory 8Gi.
C16_GpuPytorch ==
  (Rendered /\ Mentions(fnIn.text, {"gpu"}) /\ Mentions(fnIn.text, {"pytorch"})) =>
    /\ AtPath(ContainerOf(RenderedYaml), <<"image">>) =
         PyStr("pytorch/pytorch:2.3.0-cuda12.1-cudnn9-runtime")
    /\ AtPath(ContainerOf(RenderedYaml), <<"resources", "requests", "cpu">>) =
         PyStr("2000m")
    /\ AtPath(ContainerOf(RenderedYaml), <<"resources", "requests", "memory">>) =
         PyStr("8Gi")

\* the schedule the order of the four phrases gives
ScheduleOf(text) ==
  IF Mentions(text, {"every minute"}) THEN "* * * * *"
  ELSE IF Mentions(text, {"every 5 minutes"}) THEN "*/5 * * * *"
  ELSE IF Mentions(text, {"every hour"}) THEN "0 * * * *"
  ELSE IF Mentions(text, {"every day"}) THEN "0 0 * * *"
  ELSE "*/5 * * * *"

SchedulePhrases == {"every minute", "every 5 minutes", "every hour", "every day"}

\* the schedule of a rendered CronJob follows the order of the phrases
ScheduleByOrder ==
  (Rendered /\ RenderedKind = "CronJob" /\ safe_load(RenderedYaml).ok) =>
    AtPath(TreeOf(RenderedYaml), <<"spec", "schedule">>) = PyStr(ScheduleOf(fnIn.text))

\* C17 (as claimed): the schedule follows the order of the four phrases, and
\* with the kind left to inference every text with one of the phrases is
\* made a CronJob.
C17_Schedule ==
  /\ ScheduleByOrder
  /\ (Rendered /\ AutoKind /\ Mentions(fnIn.text, SchedulePhrases)) =>
       RenderedKind = "CronJob"

\* C18 (as claimed): the text of the Job and CronJob renderers parses back
\* to the parameters: kind, name, namespace and image as given and the
\* command ["/bin/sh", "-c", command].
C18_RoundTrip ==
  (Rendered /\ RenderedKind \in {"Job", "CronJob"}) =>
    LET params == IF RenderedKind = "Job"
                  THEN nl_to_job_request(fnIn.text, fnIn.namespace)
                  ELSE CronJobParams(fnIn.text, fnIn.namespace)
    IN /\ safe_load(RenderedYaml).ok
       /\ KindOf(RenderedYaml) = PyStr(RenderedKind)
       /\ NameOf(RenderedYaml) = PyStr(params.name)
       /\ AtPath(TreeOf(RenderedYaml), <<"metadata", "namespace">>) =
            PyStr(params.namespace)
       /\ AtPath(ContainerOf(RenderedYaml), <<"image">>) = PyStr(params.image)
       /\ AtPath(ContainerOf(RenderedYaml), <<"command">>) =
            PyList(<<PyStr("/bin/sh"), PyStr("-c"), PyStr(Join(params.command))>>)

\* the text has "run python" in some letter case
SaysRunPython(text) == Contains(Lower(text), "run python")

\* the text from its first "run python" (any case) on, less the four
\* characters of that "run ", trimmed
FromPython(text) ==
  LET idx == Find(Lower(text), "run python")
  IN StripChars(SubSeq(text, idx + Len("run "), Len(text)))

\* the command is the one of the "run python" rule exactly when the text
\* says "run python", and the default otherwise
CommandRuleApplies ==
  fnBy = "nl_to_job_request" =>
    /\ SaysRunPython(fnIn.text) => fnOut.v.command = RunPythonCommand(fnIn.text)
    /\ ~SaysRunPython(fnIn.text) => fnOut.v.command = DefaultJobCommand

\* C21 (as claimed): when the text contains "run python" in any letter
\* case, the command of the Job request and of the CronJob is the
\* original-case text from the first occurrence on, without that
\* occurrence's "run " and trimmed: it begins at "python", and a later
\* "run " stays in it.
C21_RunPython ==
  (fnBy = "nl_to_job_request" /\ SaysRunPython(fnIn.text)) =>
    /\ fnOut.v.command = FromPython(fnIn.text)
    /\ CronJobParams(fnIn.text, fnIn.namespace).command = FromPython(fnIn.text)

(***************************************************************************)
(* AgentService.generate_yaml, run for POST /agent.  The handler gives up  *)
(* control at each `await ask_llm`, so each ask_llm call is a step.        *)
(***************************************************************************)
\* lines 44-45: ns and kind_sel of the request
Ns(req) == IF Truthy(req.namespace) THEN req.namespace.v ELSE SettingsNamespace

KindSel(req) == IF req.kind = PyNone \/ req.kind = PyStr("Auto") THEN PyNone ELSE req.kind

\* self.agent.nl_to_resource_yaml(prompt, namespace=ns, kind=kind_sel)
Fallback(req, chat) ==
  nl_to_resource_yaml(req.instruction, Ns(req), KindSel(req), use_llm, chat)

\* the answers OpenAI can give where K8sAgent asks it
OpenAiChats == IF use_llm THEN ChatOutcomes ELSE {[o |-> "raise"]}

\* the fallback asks OpenAI when it gets as far as maybe_llm_yaml
FallbackAsksOpenAi(req) ==
  use_llm /\ KindFor(req.instruction, KindSel(req)) \in {"Job", "Deployment", "CronJob"}

GenIdle ==
  /\ genCalls' = 0
  /\ genOpenAi' = 0
  /\ genPlanFailed' = FALSE
  /\ genYamlFailed' = FALSE
  /\ genRet' = NotCalled
  /\ genRenamed' = FALSE
  /\ genYamlText' = NotCalled
  /\ genFallbacks' = 0

\* routers/agent.py lines 19-24: POST /agent arrives; 400 without instruction,
\* else generate_yaml starts and reaches its first await
AgentRequest ==
  /\ agPc = "idle"
  /\ ops < MaxOps
  /\ ops' = ops + 1
  /\ lastSent' = NothingSent
  /\ GenIdle
  /\ \E instruction \in Prompts, namespace \in Namespaces, kind \in RequestKinds :
       IF instruction = <<>>
       THEN /\ resp' = [route |-> "/agent", status |-> 400]
            /\ UNCHANGED agVars
       ELSE /\ agPc' = "plan"
            /\ agReq' = [instruction |-> instruction, namespace |-> namespace,
                         kind |-> kind]
            /\ resp' = NoResponse
  /\ UNCHANGED <<fnVars, logVars, use_llm, held, heldRenames>>

\* agent_service.py lines 69-79: plan = await ask_llm(plan_prompt); when the
\* call raises, the heuristic manifest is returned as it is
AskPlan ==
  /\ agPc = "plan"
  /\ genCalls' = genCalls + 1
  /\ \E ask \in AskOutcomes :
       LET plan == ask_llm(ask)
       IN /\ genPlanFailed' = CallFailed(ask)
          /\ IF plan.ok
             THEN /\ agPc' = "yaml"
                  /\ UNCHANGED <<genOpenAi, genRet, genRenamed, genFallbacks>>
             ELSE IF FallbackAsksOpenAi(agReq)
             THEN /\ agPc' = "openai"
                  /\ genOpenAi' = genOpenAi + 1
                  /\ genFallbacks' = genFallbacks + 1
                  /\ UNCHANGED <<genRet, genRenamed>>
             ELSE /\ agPc' = "generated"
                  /\ genRenamed' = FALSE
                  /\ genFallbacks' = genFallbacks + 1
                  /\ LET fb == Fallback(agReq, [o |-> "raise"])
                     IN genRet' = IF fb.ok THEN Return(PyText(fb.v[2])) ELSE fb
                  /\ UNCHANGED genOpenAi
  /\ UNCHANGED <<fnVars, logVars, use_llm, held, heldRenames, agReq, genYamlFailed,
                 genYamlText, resp, lastSent, ops>>

\* a check of the text that is not in the code: it must parse to a mapping
\* of a supported kind
IsUsableYaml_Validated(yaml_text) ==
  /\ yaml_text.ok
  /\ ~IsBlank(yaml_text.v)
  /\ safe_load(yaml_text.v).ok
  /\ safe_load(yaml_text.v).v.t = "dict"
  /\ "kind" \in DOMAIN safe_load(yaml_text.v).v.m
  /\ safe_load(yaml_text.v).v.m["kind"] \in SupportedKinds

\* agent_service.py lines 93-97: ask_llm returned, and with a text that is
\* not empty (`not yaml_text or len(yaml_text.strip()) == 0` raises)
IsUsableYaml(yaml_text) == yaml_text.ok /\ ~IsBlank(yaml_text.v)

\* agent_service.py lines 92-112: yaml_text = await ask_llm(yaml_prompt); a
\* non-empty text is renamed and returned; an exception or an empty text
\* leads to the heuristic manifest, renamed
AskYaml ==
  /\ agPc = "yaml"
  /\ genCalls' = genCalls + 1
  /\ \E ask \in AskOutcomes, u \in Uuid4Strs :
       LET yaml_text == ask_llm(ask)
       IN /\ genYamlText' = yaml_text
          /\ IF IsUsableYaml(yaml_text)
             THEN /\ agPc' = "generated"
                  /\ genYamlFailed' = CallFailed(ask)
                  /\ genRet' = Return(PyText(randomize_name(yaml_text.v, u).v))
                  /\ genRenamed' = TRUE
                  /\ UNCHANGED <<genOpenAi, genFallbacks>>
             ELSE IF FallbackAsksOpenAi(agReq)
             THEN /\ agPc' = "openai"
                  /\ genYamlFailed' = TRUE
                  /\ genOpenAi' = genOpenAi + 1
                  /\ genFallbacks' = genFallbacks + 1
                  /\ UNCHANGED <<genRet, genRenamed>>
             ELSE /\ agPc' = "generated"
                  /\ genYamlFailed' = TRUE
                  /\ genFallbacks' = genFallbacks + 1
                  /\ LET fb == Fallback(agReq, [o |-> "raise"])
                     IN /\ genRet' = IF fb.ok
                                     THEN Return(PyText(randomize_name(fb.v[2], u).v))
                                     ELSE fb
                        /\ genRenamed' = fb.ok
                  /\ UNCHANGED genOpenAi
  /\ UNCHANGED <<fnVars, logVars, use_llm, held, heldRenames, agReq, genPlanFailed, resp,
                 lastSent, ops>>

\* agent.py lines 255-272 under agent_service.py lines 74-79 and 107-112:
\* client.chat.completions.create(...) is an ordinary call made inside the
\* coroutine, so the event loop's thread stays in it until OpenAI answers;
\* then the fallback ends.  The handler of the second try block (two
\* ask_llm calls made) renames the manifest, the first one does not.
FallbackOpenAi ==
  /\ agPc = "openai"
  /\ agPc' = "generated"
  /\ \E chat \in ChatOutcomes, u \in Uuid4Strs :
       LET fb == Fallback(agReq, chat)
           renames == genCalls = 2
       IN /\ genRet' = IF ~fb.ok THEN fb
                       ELSE IF renames THEN Return(PyText(randomize_name(fb.v[2], u).v))
                       ELSE Return(PyText(fb.v[2]))
          /\ genRenamed' = (fb.ok /\ renames)
  /\ UNCHANGED <<fnVars, logVars, use_llm, held, heldRenames, agReq, genCalls,
                 genOpenAi, genPlanFailed, genYamlFailed, genYamlText, genFallbacks,
                 resp, lastSent, ops>>

\* the thread of the event loop is not inside a blocking call
LoopFree == agPc # "openai"

\* backend/main.py lines 22-25: GET /, a request that has nothing to do with
\* generation; the event loop must be running to take it
root ==
  /\ LoopFree
  /\ ops < MaxOps
  /\ ops' = ops + 1
  /\ resp' = [route |-> "/", status |-> 200]
  /\ UNCHANGED <<fnVars, logVars, use_llm, held, heldRenames, agVars, genVars,
                 lastSent>>

\* routers/agent.py lines 33-51: generate_yaml has finished; the handler
\* reads yaml, mode and model of its result, applies the YAML and responds.
\* An exception other than the apply's becomes a 500 of the server.
AgentRespond ==
  /\ agPc = "generated"
  /\ agPc' = "idle"
  /\ agReq' = NoRequest
  /\ GenIdle
  /\ LET yaml_text == IF genRet.ok THEN Subscript(genRet.v, "yaml") ELSE genRet
         mode == IF genRet.ok THEN Subscript(genRet.v, "mode") ELSE genRet
         model == IF genRet.ok THEN Subscript(genRet.v, "model") ELSE genRet
     IN IF ~(yaml_text.ok /\ mode.ok /\ model.ok)
        THEN /\ resp' = [route |-> "/agent", status |-> 500]
             /\ UNCHANGED <<held, heldRenames, lastSent>>
        ELSE \E http \in HttpOutcomes :
               LET ap == apply_manifest(yaml_text.v.text, SettingsNamespace, http)
                   n == IF genRenamed THEN 1 ELSE 0
               IN /\ lastSent' = IF ap.posts = <<>> THEN NothingSent
                                 ELSE [via |-> "/agent", post |-> ap.posts[1],
                                       renames |-> n]
                  /\ IF ap.res.ok
                     THEN /\ resp' = [route |-> "/agent", status |-> 200,
                                      yaml |-> yaml_text.v.text, mode |-> mode.v,
                                      model |-> model.v, result |-> ap.res.v]
                          /\ held' = yaml_text.v.text
                          /\ heldRenames' = n
                     ELSE /\ resp' = [route |-> "/agent", status |-> 500]
                          /\ UNCHANGED <<held, heldRenames>>
  /\ UNCHANGED <<fnVars, logVars, use_llm, ops>>

(***************************************************************************)
(* The other handlers: each runs to its end in one step.                   *)
(***************************************************************************)
\* the user types a manifest into the yaml box / the request body
UserWrites ==
  /\ agPc = "idle"
  /\ ops < MaxOps
  /\ ops' = ops + 1
  /\ \E text \in UserTexts : held' = text
  /\ heldRenames' = 0
  /\ UNCHANGED <<fnVars, logVars, use_llm, agVars, genVars, resp, lastSent>>

\* app.py lines 32-45: the dashboard's Generate button
generate_yaml_from_prompt ==
  /\ agPc = "idle"
  /\ ops < MaxOps
  /\ ops' = ops + 1
  /\ lastSent' = NothingSent
  /\ \E prompt \in Prompts, namespace \in {"", "prod"}, kind \in DropdownKinds,
        chat \in OpenAiChats :
       IF StripChars(prompt) = <<>>
       THEN /\ held' = Text("comment", Plain(""))
            /\ heldRenames' = 0
            /\ resp' = [route |-> "dashboard.generate", status |-> 200]
       ELSE LET ns == IF namespace # "" THEN namespace ELSE SettingsNamespace
                kind_sel == IF kind = PyStr("Auto") THEN PyNone ELSE kind
                r == nl_to_resource_yaml(prompt, ns, kind_sel, use_llm, chat)
            IN IF r.ok
               THEN /\ held' = r.v[2]
                    /\ heldRenames' = 0
                    /\ resp' = [route |-> "dashboard.generate", status |-> 200]
               ELSE /\ resp' = [route |-> "dashboard.generate", status |-> 500]
                    /\ UNCHANGED <<held, heldRenames>>
  /\ UNCHANGED <<fnVars, logVars, use_llm, agVars, genVars>>

\* routers/yaml_gen.py lines 24-39: POST /generate-yaml
generate_yaml_route ==
  /\ agPc = "idle"
  /\ ops < MaxOps
  /\ ops' = ops + 1
  /\ lastSent' = NothingSent
  /\ \E prompt \in Prompts, namespace \in Namespaces, kind \in RequestKinds,
        chat \in OpenAiChats :
       LET req == [instruction |-> prompt, namespace |-> namespace, kind |-> kind]
           r == nl_to_resource_yaml(prompt, Ns(req), KindSel(req), use_llm, chat)
       IN IF r.ok
          THEN /\ resp' = [route |-> "/generate-yaml", status |-> 200]
               /\ held' = r.v[2]
               /\ heldRenames' = 0
          ELSE /\ resp' = [route |-> "/generate-yaml", status |-> 500]
               /\ UNCHANGED <<held, heldRenames>>
  /\ UNCHANGED <<fnVars, logVars, use_llm, agVars, genVars>>

\* app.py lines 48-64: the dashboard's Apply button on the yaml box
apply_yaml_to_cluster ==
  /\ agPc = "idle"
  /\ ops < MaxOps
  /\ ops' = ops + 1
  /\ IF IsBlank(held)
     THEN /\ lastSent' = NothingSent
          /\ resp' = [route |-> "dashboard.apply", status |-> 200, success |-> FALSE,
                      message |-> "No YAML to apply."]
     ELSE \E http \in HttpOutcomes :
            LET ap == apply_manifest(held, SettingsNamespace, http)
            IN /\ lastSent' = IF ap.posts = <<>> THEN NothingSent
                              ELSE [via |-> "dashboard", post |-> ap.posts[1],
                                    renames |-> heldRenames]
               /\ resp' = IF ap.res.ok
                          THEN [route |-> "dashboard.apply", status |-> 200,
                                success |-> ap.res.v.success,
                                message |-> ap.res.v.message]
                          ELSE [route |-> "dashboard.apply", status |-> 500]
  /\ UNCHANGED <<fnVars, logVars, use_llm, held, heldRenames, agVars, genVars>>

\* routers/apply.py lines 68-88: POST /apply with the manifest held
apply_manifest_route ==
  /\ agPc = "idle"
  /\ ops < MaxOps
  /\ ops' = ops + 1
  /\ \E u \in Uuid4Strs, http \in HttpOutcomes :
       LET final_yaml == _inject_unique_name(held, u).v
           ap == apply_manifest(final_yaml, SettingsNamespace, http)
       IN /\ lastSent' = IF ap.posts = <<>> THEN NothingSent
                         ELSE [via |-> "/apply", post |-> ap.posts[1],
                               renames |-> heldRenames
                                           + (IF final_yaml # held THEN 1 ELSE 0)]
          /\ resp' = IF ap.res.ok
                     THEN [route |-> "/apply", status |-> 200,
                           success |-> ap.res.v.success, message |-> ap.res.v.message]
                     ELSE [route |-> "/apply", status |-> 500]
  /\ UNCHANGED <<fnVars, logVars, use_llm, held, heldRenames, agVars, genVars>>

(***************************************************************************)
(* follow_pod_logs: the generator behind the dashboard's "Follow logs"     *)
(* button.  Its code runs only when the consumer asks for the next value;  *)
(* between two values it is suspended at its yield.                        *)
(***************************************************************************)
\* the pod names typed into the textbox: "", " ", "web-1", " web-1"
LogPodNames ==
  {<<>>, <<" ">>, <<"w", "e", "b", "-", "1">>, <<" ", "w", "e", "b", "-", "1">>}

\* positions of the tail-lines slider
TailLines == {10, 100}

\* the GET of the log ends in a transport failure or in a response
LogOutcomes ==
  {[o |-> "error"], [o |-> "response", status |-> 404, text |-> "not found"]}
  \cup {[o |-> "response", status |-> 200, text |-> t] :
          t \in {"", "started", "disk failed"}}

\* the fetches of one generator in a behaviour
MaxPolls == 3

\* time.sleep(2)
PollSeconds == 2

\* K8sClient.get_pod_logs(pod_name, tail_lines=tail_lines)
get_pod_logs(http) ==
  IF http.o = "error" THEN Raise("RequestException")
  ELSE IF http.status = 200 THEN Return(http.text)
  ELSE Return("Error " \o IntToStr(http.status) \o ": " \o http.text)

\* _colorize_logs(text) for the one-line texts of the model: red for a line
\* with error or failed, green for one with started
_colorize_logs(text) ==
  IF text = "" THEN "<span style='color:#888;'>No logs</span>"
  ELSE "<span style='color:"
         \o (IF text = "started" THEN "#5ad55a" ELSE "#ff4b4b")
         \o ";'>" \o text \o "</span>"

EnterPodName == "<span style='color:#ff4b4b;'>Enter a pod name from the dashboard.</span>"

\* app.py lines 178-180: fetch, colorize, yield; a fetch that raises ends the
\* generator with that exception
FetchAndYield ==
  /\ logFetches' = logFetches + 1
  /\ \E http \in LogOutcomes :
       LET raw == get_pod_logs(http)
       IN IF raw.ok
          THEN /\ logPc' = "yielded"
               /\ logYields' = logYields + 1
               /\ logLast' = _colorize_logs(raw.v)
          ELSE /\ logPc' = "raised"
               /\ UNCHANGED <<logYields, logLast>>

\* the click on "Follow logs": follow_pod_logs(pod_name, tail_lines) makes
\* the generator; none of its code has run yet
FollowLogs ==
  /\ logPc = "idle"
  /\ \E pod_name \in LogPodNames, tail_lines \in TailLines :
       logCall' = [pod_name |-> pod_name, tail_lines |-> tail_lines]
  /\ logPc' = "created"
  /\ UNCHANGED <<logFetches, logYields, logSleeps, logLast, logStopped>>
  /\ UNCHANGED <<fnVars, use_llm, held, heldRenames, agVars, genVars, resp, lastSent, ops>>

\* the consumer asks for the next value: the generator runs from where it is
\* suspended to its next yield, or to its end
LogNext ==
  /\ ~logStopped
  /\ \/ /\ logPc = "created"
        /\ IF StripChars(logCall.pod_name) = <<>>
           THEN /\ logPc' = "told"
                /\ logYields' = logYields + 1
                /\ logLast' = EnterPodName
                /\ UNCHANGED logFetches
           ELSE FetchAndYield
        /\ UNCHANGED logSleeps
     \/ /\ logPc = "told"
        /\ logPc' = "returned"
        /\ UNCHANGED <<logFetches, logYields, logSleeps, logLast>>
     \/ /\ logPc = "yielded"
        /\ logFetches < MaxPolls
        /\ logSleeps' = logSleeps + PollSeconds
        /\ FetchAndYield
  /\ UNCHANGED <<logCall, logStopped>>
  /\ UNCHANGED <<fnVars, use_llm, held, heldRenames, agVars, genVars, resp, lastSent, ops>>

\* the consumer stops consuming: the generator is not resumed any more
LogStop ==
  /\ ~logStopped
  /\ logPc \in {"created", "told", "yielded"}
  /\ logStopped' = TRUE
  /\ UNCHANGED <<logCall, logPc, logFetches, logYields, logSleeps, logLast>>
  /\ UNCHANGED <<fnVars, use_llm, held, heldRenames, agVars, genVars, resp, lastSent, ops>>

InitLogs ==
  /\ fnIn = EmptyText
  /\ fnBy = ""
  /\ fnOut = NotCalled
  /\ use_llm = FALSE
  /\ SystemIdle

NextLogs == FollowLogs \/ LogNext \/ LogStop

SpecLogs == InitLogs /\ [][NextLogs]_vars

\* the pod name of the generator is blank
BlankPod == StripChars(logCall.pod_name) = <<>>

\* with a blank pod name: one message, no request, and the generator ends
BlankPodTold ==
  (logPc # "idle" /\ BlankPod) =>
    /\ logFetches = 0
    /\ logPc \in {"created", "told", "returned"}
    /\ logYields = (IF logPc = "created" THEN 0 ELSE 1)
    /\ logPc # "created" => logLast = EnterPodName

\* with a pod name: one fetch before each value, two seconds between them
OneFetchPerValue ==
  (logPc \in {"created", "yielded"} /\ ~BlankPod) =>
    /\ logYields = logFetches
    /\ logSleeps = (IF logYields = 0 THEN 0 ELSE PollSeconds * (logYields - 1))

\* once the consumer has stopped, no fetch is issued
NoFetchAfterStop == [][logStopped => logFetches' = logFetches]_vars

\* C20 (as claimed): with a pod name the generator never ends on its own and
\* every value it yields follows one fresh fetch; with a blank pod name it
\* yields one message, sends no request and ends.
C20_FollowLogs ==
  /\ BlankPodTold
  /\ OneFetchPerValue
  /\ (logPc # "idle" /\ ~BlankPod) => logPc \in {"created", "yielded"}

(***************************************************************************)
(* Properties of the orchestrator and of the handlers                      *)
(***************************************************************************)
\* generate_yaml has come to its end (and its caller has not read the result)
Generated == agPc = "generated"

\* the YAML text of the value generate_yaml returned, be it the text itself
\* or a record with a yaml field
ReturnedYaml ==
  IF genRet.v.t = "dict" THEN genRet.v.m["yaml"].text ELSE genRet.v.text

\* the kind the request resolves to: the override, or the classifier's choice
ResolvedKind(req) ==
  IF KindSel(req) = PyNone THEN infer_kind(req.instruction) ELSE KindSel(req).v

\* the result is the heuristic manifest of the request (classifier and
\* renderer on the text, the resolved kind and the namespace), disambiguated
IsHeuristicResult ==
  /\ genRet.ok
  /\ ResolvedKind(agReq) \in {"Job", "Deployment", "CronJob"}
  /\ \E u \in Uuid4Strs :
       ReturnedYaml =
         randomize_name(TemplateYaml(ResolvedKind(agReq), agReq.instruction, Ns(agReq)), u).v

\* C1 (as claimed): the manifest generate_yaml returns has been passed through
\* randomize_name, on every return path.
C1_AlwaysRenamed == (Generated /\ genRet.ok) => genRenamed

\* C2 (as claimed): generate_yaml never raises; it ends by returning.
C2_NeverRaises == Generated => genRet.ok

\* C3 (as claimed): when a text-generation call errors, the result has mode
\* fallback, its YAML is the disambiguated heuristic manifest, and the
\* fallback path has issued no external text-generation call.
C3_FallbackResult ==
  (Generated /\ (genPlanFailed \/ genYamlFailed)) =>
    /\ genRet.ok
    /\ Subscript(genRet.v, "mode") = Return(PyStr("fallback"))
    /\ IsHeuristicResult
    /\ genOpenAi = 0

\* C4 (as claimed): when the plan-to-YAML call fails or yields an empty or
\* whitespace-only result, generate_yaml returns the heuristic manifest,
\* never an empty manifest and never text of a text-generation service.
C4_EmptyFallsBack ==
  (Generated /\ genYamlFailed) =>
    /\ genRet.ok
    /\ ~IsBlank(ReturnedYaml)
    /\ IsHeuristicResult

\* C5 (as claimed): when the plan call fails, no second ask_llm call is issued
\* in that generate call and the result is the heuristic manifest.
C5_PlanFailureSkipsYaml ==
  genPlanFailed =>
    /\ genCalls <= 1
    /\ Generated => IsHeuristicResult

\* C6 (as claimed): the value generate_yaml returns provides the yaml, mode
\* and model the handler reads, and every POST /agent with an instruction is
\* answered with the record of yaml, mode, model and apply result.
C6_AgentResponds ==
  /\ Generated =>
       /\ genRet.ok
       /\ Subscript(genRet.v, "yaml").ok
       /\ Subscript(genRet.v, "mode").ok
       /\ Subscript(genRet.v, "model").ok
  /\ (resp.route = "/agent" /\ resp.status # 400) =>
       /\ resp.status = 200
       /\ resp.mode \in {PyStr("llm"), PyStr("fallback")}

\* C10 (as claimed): the manifest of every create request sent to the cluster
\* has been rewritten by a disambiguator exactly once.
C10_RenamedOnce == lastSent # NothingSent => lastSent.renames = 1

\* a generate call is waiting for a text-generation service to answer
AwaitingGeneration == agPc \in {"plan", "yaml", "openai"}

\* C19 (as claimed): while a generate call waits for a text-generation call,
\* on the planned calls and inside the fallback alike, an unrelated request
\* can be served.
C19_NeverBlocks == (AwaitingGeneration /\ ops < MaxOps) => ENABLED root

\* the plan-to-YAML call came back with a text that is not empty
LlmTextGiven ==
  /\ Generated
  /\ genYamlText.ok
  /\ Strip(genYamlText.v) # EmptyText

\* the text has nothing randomize_name rewrites: it does not parse, is no
\* mapping, is of no supported kind or has no metadata.name
NothingToRename(text) ==
  \/ ~safe_load(text).ok
  \/ TreeOf(text).t # "dict"
  \/ KindOf(text) \notin SupportedKinds
  \/ NameOf(text) = PyNone

\* C22: when the second ask_llm call returns a text that is not empty,
\* generate_yaml returns that text, renamed when it is a mapping of a
\* supported kind with a name and as it is otherwise, and
\* K8sAgent.nl_to_resource_yaml is not called; the text is not checked
\* against YAML, the supported kinds or the kind of the request.
C22_LlmTextReturned ==
  LlmTextGiven =>
    /\ genFallbacks = 0
    /\ genOpenAi = 0
    /\ genRet.ok
    /\ Renamable(genYamlText.v) =>
         /\ safe_load(ReturnedYaml).ok
         /\ KindOf(ReturnedYaml) = KindOf(genYamlText.v)
         /\ NameOf(ReturnedYaml).t = "str"
         /\ IsSuffixed(NameOf(ReturnedYaml).v, NameOf(genYamlText.v).v)
    /\ NothingToRename(genYamlText.v) => ReturnedYaml = genYamlText.v

C22_Witness ==
  /\ LlmTextGiven
  /\ KindOf(genYamlText.v) = PyStr("Pod")
  /\ agReq.kind = PyStr("Deployment")
  /\ ReturnedYaml = genYamlText.v
  /\ genFallbacks = 0

Init ==
  /\ fnIn = EmptyText
  /\ fnBy = ""
  /\ fnOut = NotCalled
  /\ use_llm \in BOOLEAN
  /\ SystemIdle

Next ==
  \/ AgentRequest
  \/ AskPlan
  \/ AskYaml
  \/ FallbackOpenAi
  \/ AgentRespond
  \/ root
  \/ UserWrites
  \/ generate_yaml_from_prompt
  \/ generate_yaml_route
  \/ apply_yaml_to_cluster
  \/ apply_manifest_route

Spec == Init /\ [][Next]_vars
====
